---- MODULE Spec2Model ----
(***************************************************************************)
(* Verification model of the arithmetic core of primus-fhe:                *)
(*   - Modulus<T> and its Barrett reduction (modulus/internal_macros.rs),   *)
(*   - the prime field element Fp32 and its NTT table cache                *)
(*     (field/fp32.rs).                                                    *)
(*                                                                         *)
(* Machine words do not fit the model checker's integers (a u32 reaches    *)
(* 2^32-1, a u64 product 2^64-1), so every machine number is held as an    *)
(* exact natural number in little-endian base-16 digits without leading    *)
(* zero digits (zero is the empty sequence).  A word type of BITS bits is  *)
(* obtained by truncating to BITS bits wherever the code wraps.            *)
(***************************************************************************)
EXTENDS Integers, Sequences, FiniteSets, TLC

(***************************************************************************)
(* Exact natural numbers: base-16 digit sequences.                         *)
(***************************************************************************)
DigitBits == 4
Base == 16

\* An operator's arguments are expressions, evaluated wherever the operator's body uses
\* them.  The public operators hand the digit-level ones the values of their operands,
\* each computed once: CHOOSE res \in {F(arg1) : arg1 \in {v}} : TRUE.

\* s without its leading (most significant) zero digits
StripDigits(s) ==
    SubSeq(s, 1, CHOOSE n \in 0..Len(s) :
                     (n = 0 \/ s[n] # 0) /\ \A j \in (n + 1)..Len(s) : s[j] = 0)

Strip(s) == (CHOOSE res \in {StripDigits(arg1) : arg1 \in {s}} : TRUE)

RECURSIVE ToBig(_)
ToBig(n) == IF n = 0 THEN <<>> ELSE <<n % Base>> \o ToBig(n \div Base)

\* the number that the digits from i up stand for, divided by Base^(i-1)
RECURSIVE ToIntFrom(_, _)
ToIntFrom(b, i) == IF i > Len(b) THEN 0 ELSE b[i] + Base * ToIntFrom(b, i + 1)

ToIntDigits(b) == ToIntFrom(b, 1)

ToInt(b) == (CHOOSE res \in {ToIntDigits(arg1) : arg1 \in {b}} : TRUE)

Digit(b, i) == IF i <= Len(b) THEN b[i] ELSE 0

Max2(x, y) == IF x >= y THEN x ELSE y

RECURSIVE AddFrom(_, _, _, _)
AddFrom(a, b, i, carry) ==
    IF i > Max2(Len(a), Len(b))
    THEN (IF carry = 0 THEN <<>> ELSE <<carry>>)
    ELSE LET s == Digit(a, i) + Digit(b, i) + carry
         IN  <<s % Base>> \o AddFrom(a, b, i + 1, s \div Base)

AddDigits(a, b) == AddFrom(a, b, 1, 0)

BigAdd(a, b) == (CHOOSE res \in {AddDigits(arg1, arg2) : arg1 \in {a}, arg2 \in {b}} : TRUE)

RECURSIVE CmpFrom(_, _, _)
CmpFrom(a, b, i) ==
    IF i = 0 THEN 0
    ELSE IF Digit(a, i) < Digit(b, i) THEN -1
    ELSE IF Digit(a, i) > Digit(b, i) THEN 1
    ELSE CmpFrom(a, b, i - 1)

CmpDigits(a, b) == CmpFrom(a, b, Max2(Len(a), Len(b)))

BigCmp(a, b) == (CHOOSE res \in {CmpDigits(arg1, arg2) : arg1 \in {a}, arg2 \in {b}} : TRUE)
BigLt(a, b) == BigCmp(a, b) < 0
BigGe(a, b) == BigCmp(a, b) >= 0

RECURSIVE SubFrom(_, _, _, _)
SubFrom(a, b, i, borrow) ==
    IF i > Len(a) THEN <<>>
    ELSE LET d == Digit(a, i) - Digit(b, i) - borrow
         IN  IF d < 0 THEN <<d + Base>> \o SubFrom(a, b, i + 1, 1)
             ELSE <<d>> \o SubFrom(a, b, i + 1, 0)

SubDigits(a, b) == Strip(SubFrom(a, b, 1, 0))

\* a - b for a >= b
BigSub(a, b) == (CHOOSE res \in {SubDigits(arg1, arg2) : arg1 \in {a}, arg2 \in {b}} : TRUE)

RECURSIVE MulDigitFrom(_, _, _, _)
MulDigitFrom(a, d, i, carry) ==
    IF i > Len(a)
    THEN (IF carry = 0 THEN <<>> ELSE <<carry>>)
    ELSE LET s == a[i] * d + carry
         IN  <<s % Base>> \o MulDigitFrom(a, d, i + 1, s \div Base)

Zeros(n) == [i \in 1..n |-> 0]

RECURSIVE MulFrom(_, _, _)
MulFrom(a, b, j) ==
    IF j > Len(b) THEN <<>>
    ELSE BigAdd(IF b[j] = 0 THEN <<>> ELSE Zeros(j - 1) \o MulDigitFrom(a, b[j], 1, 0),
                MulFrom(a, b, j + 1))

MulDigits(a, b) == IF a = <<>> \/ b = <<>> THEN <<>> ELSE MulFrom(a, b, 1)

BigMul(a, b) == (CHOOSE res \in {MulDigits(arg1, arg2) : arg1 \in {a}, arg2 \in {b}} : TRUE)

\* floor(a / 2^bits) and a mod 2^bits, for bits a multiple of DigitBits
ShrDigits(a, n) == IF n >= Len(a) THEN <<>> ELSE SubSeq(a, n + 1, Len(a))
TruncDigits(a, n) == IF n >= Len(a) THEN a ELSE StripDigits(SubSeq(a, 1, n))
ShlDigits(a, n) == IF a = <<>> THEN <<>> ELSE Zeros(n) \o a

RECURSIVE Pow2Int(_)
Pow2Int(k) == IF k = 0 THEN 1 ELSE 2 * Pow2Int(k - 1)

\* the digits of a, each shifted right by k < DigitBits bits
ShrSmall(a, k) ==
    StripDigits([i \in 1..Len(a) |->
                    (a[i] \div Pow2Int(k)) + (Digit(a, i + 1) % Pow2Int(k)) * Pow2Int(DigitBits - k)])

ShrBits(a, bits) ==
    IF bits % DigitBits = 0 THEN ShrDigits(a, bits \div DigitBits)
    ELSE (CHOOSE res \in {ShrSmall(arg1, arg2) : arg1 \in {ShrDigits(a, bits \div DigitBits)}, arg2 \in {bits % DigitBits}} : TRUE)

\* floor(a / 2^bits), any bits >= 0
BigShr(a, bits) == (CHOOSE res \in {ShrBits(arg1, arg2) : arg1 \in {a}, arg2 \in {bits}} : TRUE)

TruncBits(a, bits) ==
    LET n == bits \div DigitBits
        k == bits % DigitBits
    IN  IF k = 0 \/ n >= Len(a) THEN TruncDigits(a, n)
        ELSE StripDigits(SubSeq(a, 1, n) \o <<a[n + 1] % Pow2Int(k)>>)

\* a mod 2^bits, any bits >= 0
BigTrunc(a, bits) == (CHOOSE res \in {TruncBits(arg1, arg2) : arg1 \in {a}, arg2 \in {bits}} : TRUE)

\* a * 2^bits, for bits a multiple of DigitBits
BigShl(a, bits) == (CHOOSE res \in {ShlDigits(arg1, arg2) : arg1 \in {a}, arg2 \in {bits \div DigitBits}} : TRUE)

\* 2^bits
BigPow2(bits) == Zeros(bits \div DigitBits) \o <<Pow2Int(bits % DigitBits)>>

BitLenDigits(a) ==
    IF a = <<>> THEN 0
    ELSE LET top == a[Len(a)]
         IN  DigitBits * (Len(a) - 1)
             + (IF top >= 8 THEN 4 ELSE IF top >= 4 THEN 3 ELSE IF top >= 2 THEN 2 ELSE 1)

\* number of significant bits of a
BitLen(a) == (CHOOSE res \in {BitLenDigits(arg1) : arg1 \in {a}} : TRUE)

\* bit i of a (bit 0 is the least significant)
BitOf(a, i) == (Digit(a, (i \div DigitBits) + 1) \div Pow2Int(i % DigitBits)) % 2

(***************************************************************************)
(* Long division of an exact natural by another, one digit at a time; the  *)
(* independent reference for every quotient and remainder.                 *)
(***************************************************************************)
BigDouble(a) == (CHOOSE res \in {AddDigits(arg1, arg2) : arg1 \in {a}, arg2 \in {a}} : TRUE)

\* d * k for a digit k
TimesDigit(d, k) == IF k = 0 \/ d = <<>> THEN <<>> ELSE MulDigitFrom(d, k, 1, 0)

\* the largest digit k with d * k <= r, for r < d * Base
QuotientDigit(r, d) ==
    CHOOSE k \in 0..(Base - 1) :
        /\ BigCmp(TimesDigit(d, k), r) <= 0
        /\ k = Base - 1 \/ BigCmp(TimesDigit(d, k + 1), r) > 0

\* <<quotient, remainder>> after feeding the digits of a from digit i down to 1 to the
\* quotient digits q and remainder r of the digits above
RECURSIVE DivFrom(_, _, _, _, _)
DivFrom(a, d, i, q, r) ==
    IF i = 0 THEN <<StripDigits(q), r>>
    ELSE CHOOSE qr \in
             {DivFrom(a, d, i - 1, <<k>> \o q, BigSub(r2, TimesDigit(d, k))) :
                  r2 \in {StripDigits(<<a[i]>> \o r)},
                  k \in {(CHOOSE res \in {QuotientDigit(arg1, arg2) : arg1 \in {StripDigits(<<a[i]>> \o r)}, arg2 \in {d}} : TRUE)}} : TRUE

DivDigits(a, d) == DivFrom(a, d, Len(a), <<>>, <<>>)

\* floor(a / d) and a mod d, for d > 0
BigDiv(a, d) == (CHOOSE res \in {DivDigits(arg1, arg2) : arg1 \in {a}, arg2 \in {d}} : TRUE)[1]
BigMod(a, d) == (CHOOSE res \in {DivDigits(arg1, arg2) : arg1 \in {a}, arg2 \in {d}} : TRUE)[2]

\* the wrapping operations of a word type of `bits` bits
wrapping_add(a, b, bits) == BigTrunc(BigAdd(a, b), bits)
wrapping_sub(a, b, bits) ==
    CHOOSE r \in {IF CmpDigits(x, y) >= 0 THEN SubDigits(x, y)
                  ELSE SubDigits(AddDigits(x, BigPow2(bits)), y) : x \in {a}, y \in {b}} : TRUE
wrapping_mul(a, b, bits) == BigTrunc(BigMul(a, b), bits)


\* bitwise and / or of two 4-bit digits, then of two naturals
AndDigit(x, y) ==
    (x % 2) * (y % 2) + 2 * (((x \div 2) % 2) * ((y \div 2) % 2))
    + 4 * (((x \div 4) % 2) * ((y \div 4) % 2)) + 8 * ((x \div 8) * (y \div 8))

AndDigits(a, b) ==
    StripDigits([i \in 1..Max2(Len(a), Len(b)) |-> AndDigit(Digit(a, i), Digit(b, i))])

BigAnd(a, b) == (CHOOSE res \in {AndDigits(arg1, arg2) : arg1 \in {a}, arg2 \in {b}} : TRUE)

OrDigits(a, b) ==
    [i \in 1..Max2(Len(a), Len(b)) |->
        Digit(a, i) + Digit(b, i) - AndDigit(Digit(a, i), Digit(b, i))]

BigOr(a, b) == (CHOOSE res \in {OrDigits(arg1, arg2) : arg1 \in {a}, arg2 \in {b}} : TRUE)

\* the number of zero bits above the highest set bit of a BITS-bit word
leading_zeros(x, BITS) ==
    Cardinality({i \in 0..(BITS - 1) : \A j \in i..(BITS - 1) : BitOf(x, j) = 0})

(***************************************************************************)
(* Modulus<T>::new  (modulus/internal_macros.rs, impl_prime_modulus).      *)
(* The macro is instantiated per word type; BITS is <T>::BITS.             *)
(***************************************************************************)
U8_BITS == 8
U32_BITS == 32

HALF_BITS(BITS) == BITS \div 2
HALF(BITS) == BigSub(BigPow2(HALF_BITS(BITS)), <<1>>)

div_rem(numerator, divisor) == (CHOOSE res \in {DivDigits(arg1, arg2) : arg1 \in {numerator}, arg2 \in {divisor}} : TRUE)

div_wide(hi, lo, divisor, BITS) ==
    CHOOSE out \in {<<BigTrunc(qr[1], BITS), BigTrunc(qr[2], BITS)>> :
                        qr \in {div_rem(BigOr(lo, BigShl(hi, BITS)), divisor)}} : TRUE

\* div_half returning hi | lo, the high half not shifted into place
div_half_low_unshifted(s1, digit, divisor, BITS) ==
    CHOOSE out \in
        {<<BigOr(s1[1], s2[1]), s2[2]>> :
             s2 \in {div_rem(BigOr(BigTrunc(BigShl(s1[2], HALF_BITS(BITS)), BITS),
                                    BigAnd(digit, HALF(BITS))), divisor)}} : TRUE

\* the second half-step of div_half, given the first one's <<quotient, remainder>> s1
div_half_low(s1, digit, divisor, BITS) ==
    CHOOSE out \in
        {<<BigOr(BigTrunc(BigShl(s1[1], HALF_BITS(BITS)), BITS), s2[1]), s2[2]>> :
             s2 \in {div_rem(BigOr(BigTrunc(BigShl(s1[2], HALF_BITS(BITS)), BITS),
                                    BigAnd(digit, HALF(BITS))), divisor)}} : TRUE

div_half(rem, digit, divisor, BITS) ==
    CHOOSE out \in
        {div_half_low(s1, digit, divisor, BITS) :
             s1 \in {div_rem(BigOr(BigTrunc(BigShl(rem, HALF_BITS(BITS)), BITS),
                                    BigShr(digit, HALF_BITS(BITS))), divisor)}} : TRUE

\* one step of div_inplace's loop over numerator[2], numerator[1], numerator[0]
div_step(rem, digit, value, BITS) ==
    IF ~BigLt(HALF(BITS), value) THEN div_half(rem, digit, value, BITS)
    ELSE div_wide(rem, digit, value, BITS)

\* <<numerator, rem>>; numerator[1..3] are the code's numerator[0..2]
div_inplace(value, BITS) ==
    CHOOSE out \in
        {CHOOSE o1 \in
             {CHOOSE o0 \in {<<(<<d0[1], d1[1], d2[1]>>), d0[2]>> :
                                 d0 \in {div_step(d1[2], <<>>, value, BITS)}} : TRUE :
                  d1 \in {div_step(d2[2], <<>>, value, BITS)}} : TRUE :
             d2 \in {div_step(<<>>, <<1>>, value, BITS)}} : TRUE

\* Modulus::new asserting bit_count < BITS instead of bit_count < BITS - 1
Modulus_new_late_assert(value, BITS) ==
    IF value = <<>> \/ value = <<1>> THEN [panic |-> TRUE]
    ELSE LET bit_count == BITS - (BITS - BitLen(value))
         IN  IF ~(bit_count < BITS) THEN [panic |-> TRUE]
             ELSE CHOOSE m \in {[panic |-> FALSE, value |-> value,
                                  ratio |-> <<numerator[1], numerator[2]>>,
                                  bit_count |-> bit_count] :
                                    numerator \in {div_inplace(value, BITS)[1]}} : TRUE

\* ratio[1], ratio[2] are the code's ratio[0] (low limb), ratio[1] (high limb)
Modulus_new(value, BITS) ==
    IF value = <<>> \/ value = <<1>> THEN [panic |-> TRUE]
    ELSE LET bit_count == BITS - (BITS - BitLen(value))
         IN  IF ~(bit_count < BITS - 1) THEN [panic |-> TRUE]
             ELSE CHOOSE m \in {[panic |-> FALSE, value |-> value,
                                  ratio |-> <<numerator[1], numerator[2]>>,
                                  bit_count |-> bit_count] :
                                    numerator \in {div_inplace(value, BITS)[1]}} : TRUE

(***************************************************************************)
(* Barrett reduction  (Modulo<&Modulus<T>> for T, [T; 2], (T, T)).         *)
(***************************************************************************)
\* reduce with the final comparison written > instead of >=
reduce_strict_compare(self, modulus, BITS) ==
    LET ratio == modulus.ratio
        tmp1  == BigShr(BigMul(self, ratio[1]), BITS)
        q3    == BigTrunc(BigShr(BigAdd(BigMul(self, ratio[2]), tmp1), BITS), BITS)
        tmp   == wrapping_sub(self, wrapping_mul(q3, modulus.value, BITS), BITS)
    IN  IF BigLt(modulus.value, tmp) THEN BigSub(tmp, modulus.value) ELSE tmp

\* one word
reduce(self, modulus, BITS) ==
    LET ratio == modulus.ratio
        tmp1  == BigShr(BigMul(self, ratio[1]), BITS)
        q3    == BigTrunc(BigShr(BigAdd(BigMul(self, ratio[2]), tmp1), BITS), BITS)
        tmp   == wrapping_sub(self, wrapping_mul(q3, modulus.value, BITS), BITS)
    IN  IF BigGe(tmp, modulus.value) THEN BigSub(tmp, modulus.value) ELSE tmp

\* the two-word steps with the carry of a (a >> BITS) left out of b_plus_a_left
reduce_wide_steps_no_carry(lo, hi, modulus, BITS) ==
    LET ratio == modulus.ratio
        b_plus_a_left == BigMul(ratio[2], lo)
        c     == BigMul(ratio[1], hi)
        d     == BigMul(ratio[2], hi)
        sum   == BigAdd(b_plus_a_left, c)
        tmp   == BigTrunc(wrapping_add(d, BigShr(BigTrunc(sum, 2 * BITS), BITS), 2 * BITS),
                          BITS)
        r     == wrapping_sub(lo, wrapping_mul(tmp, modulus.value, BITS), BITS)
    IN  [b_plus_a_left |-> b_plus_a_left, sum |-> sum, r |-> r,
         out |-> IF BigGe(r, modulus.value) THEN BigSub(r, modulus.value) ELSE r]

\* the steps shared by the two-word forms; lo, hi are self[0], self[1] (self.0, self.1).
\* sum is b_plus_a_left + c as an exact number: the wide type holds it only below
\* 2^(2*BITS); the code goes on with its low 2*BITS bits.
reduce_wide_steps(lo, hi, modulus, BITS) ==
    LET ratio == modulus.ratio
        a     == BigMul(ratio[1], lo)
        b_plus_a_left == BigAdd(BigMul(ratio[2], lo), BigShr(a, BITS))
        c     == BigMul(ratio[1], hi)
        d     == BigMul(ratio[2], hi)
        sum   == BigAdd(b_plus_a_left, c)
        tmp   == BigTrunc(wrapping_add(d, BigShr(BigTrunc(sum, 2 * BITS), BITS), 2 * BITS),
                          BITS)
        r     == wrapping_sub(lo, wrapping_mul(tmp, modulus.value, BITS), BITS)
    IN  [b_plus_a_left |-> b_plus_a_left, sum |-> sum, r |-> r,
         out |-> IF BigGe(r, modulus.value) THEN BigSub(r, modulus.value) ELSE r]

\* [T; 2]
reduce_array2(self, modulus, BITS) == reduce_wide_steps(self[1], self[2], modulus, BITS)

\* the (T, T) form with the high word self.1 left out
reduce_tuple_low_word(self, modulus, BITS) == reduce_wide_steps(self[1], <<>>, modulus, BITS)

\* (T, T)
reduce_tuple(self, modulus, BITS) == reduce_wide_steps(self[1], self[2], modulus, BITS)

\* rfold(*last, |acc, x| [*x, acc].reduce(modulus)) over other, from its last element to
\* its first.  accs are the accumulators in the order the closure produced them;
\* overflow tells that some b_plus_a_left + c did not fit the wide type.
RECURSIVE rfold(_, _, _, _)
rfold(other, st, modulus, BITS) ==
    IF other = <<>> THEN st
    ELSE CHOOSE out \in
             {rfold(SubSeq(other, 1, Len(other) - 1),
                    [acc |-> step.out, accs |-> Append(st.accs, step.out),
                     overflow |-> st.overflow \/ BigGe(step.sum, BigPow2(2 * BITS))],
                    modulus, BITS) :
                  step \in {reduce_array2(<<other[Len(other)], st.acc>>, modulus, BITS)}} : TRUE

\* the slice reduce folding from the first element to the last
reduce_slice_left_fold(self, modulus, BITS) ==
    IF self = <<>> THEN [panic |-> TRUE]
    ELSE IF Len(self) = 1
         THEN [panic |-> FALSE, accs |-> <<>>, overflow |-> FALSE,
               out |-> IF BigLt(self[1], modulus.value) THEN self[1]
                       ELSE reduce(self[1], modulus, BITS)]
         ELSE LET rev == [i \in 1..Len(self) |-> self[Len(self) + 1 - i]]
                  st == rfold(SubSeq(rev, 1, Len(rev) - 1),
                              [acc |-> rev[Len(rev)], accs |-> <<>>, overflow |-> FALSE],
                              modulus, BITS)
              IN  [panic |-> FALSE, accs |-> st.accs, overflow |-> st.overflow, out |-> st.acc]

\* &[T]
reduce_slice(self, modulus, BITS) ==
    IF self = <<>> THEN [panic |-> TRUE]
    ELSE IF Len(self) = 1
         THEN [panic |-> FALSE, accs |-> <<>>, overflow |-> FALSE,
               out |-> IF BigLt(self[1], modulus.value) THEN self[1]
                       ELSE reduce(self[1], modulus, BITS)]
         ELSE LET st == rfold(SubSeq(self, 1, Len(self) - 1),
                              [acc |-> self[Len(self)], accs |-> <<>>, overflow |-> FALSE],
                              modulus, BITS)
              IN  [panic |-> FALSE, accs |-> st.accs, overflow |-> st.overflow, out |-> st.acc]


(***************************************************************************)
(* State.  Each specification below drives its own variables and leaves    *)
(* the others at their initial values.                                     *)
(***************************************************************************)
VARIABLES
    b_modulus,   \* Barrett: the Modulus<u8> under test, as Modulus::new built it
    b_form,      \* Barrett: which reduce is called: "word", "array2", "tuple", "none"
    b_self,      \* Barrett: the argument, a sequence of one or two words
    b_result,    \* Barrett: [done |-> FALSE], then what the call produced
    cell_set,    \* cache: NTT_TABLE (the OnceCell) holds a map
    tables,      \* cache: the HashMap in NTT_TABLE, log_n -> Arc<NTTTable>
    mutex_holder,    \* cache: the thread holding NTT_MUTEX, or "none"
    mutex_poisoned,  \* cache: a thread panicked while holding NTT_MUTEX
    aborted,     \* cache: the process died of a data race
    pc,          \* cache: where each thread is in its current call
    calls,       \* cache: how many calls each thread has started
    call,        \* cache: the arguments, locals and result of each thread's call
    f_op,        \* Fp32: the operation called
    f_a,         \* Fp32: the first operand (self), as its inner u32
    f_b,         \* Fp32: the second operand (rhs, basis or raw value), a u32
    f_self,      \* Fp32: the receiver of an assigning operator (starts as f_a)
    f_out,       \* Fp32: [done |-> FALSE], then what the call produced
    m_bits,      \* Modulus::new: <T>::BITS of the word type
    m_value,     \* Modulus::new: the argument
    m_out,       \* Modulus::new: [done |-> FALSE], then the Modulus built or the panic
    q_bits,      \* MulModuloFactor: <T>::BITS of the word type
    q_modulus,   \* MulModuloFactor: the modulus argument, a word
    q_value,     \* MulModuloFactor: the value argument, a word
    q_factor,    \* MulModuloFactor: [built |-> FALSE], then the factor new returned
    q_rhs,       \* MulModuloFactor: rhs of the multiplication
    q_out,       \* MulModuloFactor: [done |-> FALSE], then what the multiplication returned
    p_value,     \* PowOf2Modulus: the argument of new
    p_modulus,   \* PowOf2Modulus: [built |-> FALSE], then the modulus built or the panic
    p_op,        \* PowOf2Modulus: the operation called on it
    p_x,         \* PowOf2Modulus: self (a word; the sequence a of a dot product)
    p_y,         \* PowOf2Modulus: rhs, exp or exp_log (the sequence b of a dot product)
    p_out,       \* PowOf2Modulus: [done |-> FALSE], then what the operation returned
    r_op,        \* roots: the function called
    r_degree,    \* roots: its degree argument, a u32
    r_pc,        \* roots: where the call is
    r_tries,     \* roots: closure calls made by (0..100).any
    r_w,         \* roots: w of try_primitive_root
    r_root,      \* roots: root of try_minimal_primitive_root
    r_current,   \* roots: current_generator
    r_i,         \* roots: iterations of the for loop done
    r_out,       \* roots: [done |-> FALSE], then what the call returned
    n_log_n,     \* generate_ntt_table: the argument
    n_pc,        \* generate_ntt_table: where the call is
    n_w,         \* generate_ntt_table: the w the root search stopped at
    n_i,         \* generate_ntt_table: i of the running for loop
    n_power,     \* generate_ntt_table: power
    n_table,     \* generate_ntt_table: root, inv_root, root_powers, inv_root_powers
    n_writes,    \* generate_ntt_table: assignments made to each slot of the two vectors
    n_out,       \* generate_ntt_table: [done |-> FALSE], then what the call returned
    tw_op,       \* twiddles: the function called
    tw_x,        \* twiddles: self of mul_root and mul_root_assign
    tw_r,        \* twiddles: the field element the root is made from
    tw_self,     \* twiddles: self after mul_root_assign
    tw_out       \* twiddles: [done |-> FALSE], then what the call returned

barrettVars == <<b_modulus, b_form, b_self, b_result>>

cacheVars == <<cell_set, tables, mutex_holder, mutex_poisoned, aborted, pc, calls, call>>

fpVars == <<f_op, f_a, f_b, f_self, f_out>>

modulusVars == <<m_bits, m_value, m_out>>

factorVars == <<q_bits, q_modulus, q_value, q_factor, q_rhs, q_out>>

pow2Vars == <<p_value, p_modulus, p_op, p_x, p_y, p_out>>

rootVars == <<r_op, r_degree, r_pc, r_tries, r_w, r_root, r_current, r_i, r_out>>

tableVars == <<n_log_n, n_pc, n_w, n_i, n_power, n_table, n_writes, n_out>>

twiddleVars == <<tw_op, tw_x, tw_r, tw_self, tw_out>>

vars == <<b_modulus, b_form, b_self, b_result,
          cell_set, tables, mutex_holder, mutex_poisoned, aborted, pc, calls, call,
          f_op, f_a, f_b, f_self, f_out,
          m_bits, m_value, m_out,
          q_bits, q_modulus, q_value, q_factor, q_rhs, q_out,
          p_value, p_modulus, p_op, p_x, p_y, p_out,
          r_op, r_degree, r_pc, r_tries, r_w, r_root, r_current, r_i, r_out,
          n_log_n, n_pc, n_w, n_i, n_power, n_table, n_writes, n_out,
          tw_op, tw_x, tw_r, tw_self, tw_out>>

\* what the actions of one specification leave alone
notBarrettVars ==
    <<cacheVars, fpVars, modulusVars, factorVars,
      pow2Vars, rootVars, tableVars, twiddleVars>>
notCacheVars ==
    <<barrettVars, fpVars, modulusVars, factorVars,
      pow2Vars, rootVars, tableVars, twiddleVars>>
notFpVars ==
    <<barrettVars, cacheVars, modulusVars, factorVars,
      pow2Vars, rootVars, tableVars, twiddleVars>>
notModulusVars ==
    <<barrettVars, cacheVars, fpVars, factorVars,
      pow2Vars, rootVars, tableVars, twiddleVars>>
notFactorVars ==
    <<barrettVars, cacheVars, fpVars, modulusVars,
      pow2Vars, rootVars, tableVars, twiddleVars>>
notPow2Vars ==
    <<barrettVars, cacheVars, fpVars, modulusVars,
      factorVars, rootVars, tableVars, twiddleVars>>
notRootVars ==
    <<barrettVars, cacheVars, fpVars, modulusVars,
      factorVars, pow2Vars, tableVars, twiddleVars>>
notTableVars ==
    <<barrettVars, cacheVars, fpVars, modulusVars,
      factorVars, pow2Vars, rootVars, twiddleVars>>
notTwiddleVars ==
    <<barrettVars, cacheVars, fpVars, modulusVars,
      factorVars, pow2Vars, rootVars, tableVars>>

Threads == {"t1", "t2"}

NoTable == [log_n |-> -1, by |-> "none", call |-> 0]
\* the "outcome" of a lookup that brought the process down
Crashed == [log_n |-> -2, by |-> "none", call |-> 0]
NoResult == [kind |-> "none", table |-> NoTable]
NoCall == [op |-> "none", log_ns |-> {}, seen |-> NoTable, raced |-> FALSE,
           todo |-> {}, local |-> <<>>, cur |-> NoTable, result |-> NoResult]

\* the cache before any call: NTT_TABLE = OnceCell::new(), NTT_MUTEX = Mutex::new(())
CacheIdle ==
    /\ cell_set = FALSE
    /\ tables = <<>>
    /\ mutex_holder = "none"
    /\ mutex_poisoned = FALSE
    /\ aborted = FALSE
    /\ pc = [t \in Threads |-> "idle"]
    /\ calls = [t \in Threads |-> 0]
    /\ call = [t \in Threads |-> NoCall]

\* no Fp32 operation under way
FpIdle ==
    /\ f_op = "none" /\ f_a = <<>> /\ f_b = <<>> /\ f_self = <<>>
    /\ f_out = [done |-> FALSE]

\* no reduce call under way
BarrettIdle ==
    /\ b_modulus = [panic |-> TRUE] /\ b_form = "none" /\ b_self = <<>>
    /\ b_result = [done |-> FALSE]

\* no Modulus::new call under way
ModulusIdle == m_bits = 0 /\ m_value = <<>> /\ m_out = [done |-> FALSE]

\* no MulModuloFactor under construction or in use
FactorIdle ==
    /\ q_bits = 0 /\ q_modulus = <<>> /\ q_value = <<>> /\ q_factor = [built |-> FALSE]
    /\ q_rhs = <<>> /\ q_out = [done |-> FALSE]

\* no PowOf2Modulus under construction or in use
Pow2Idle ==
    /\ p_value = <<>> /\ p_modulus = [built |-> FALSE] /\ p_op = "none"
    /\ p_x = <<>> /\ p_y = <<>> /\ p_out = [done |-> FALSE]

\* no primitive-root search under way
RootIdle ==
    /\ r_op = "none" /\ r_degree = <<>> /\ r_pc = "idle" /\ r_tries = 0
    /\ r_w = <<>> /\ r_root = <<>> /\ r_current = <<>> /\ r_i = 0
    /\ r_out = [done |-> FALSE]

\* no table under construction
NoNttTable == [root |-> <<>>, inv_root |-> <<>>, root_powers |-> <<>>, inv_root_powers |-> <<>>]
NoWrites == [root_powers |-> <<>>, inv_root_powers |-> <<>>]

TableIdle ==
    /\ n_log_n = 0 /\ n_pc = "idle" /\ n_w = <<>> /\ n_i = 0 /\ n_power = <<>>
    /\ n_table = NoNttTable /\ n_writes = NoWrites
    /\ n_out = [done |-> FALSE]

\* no twiddle operation under way
TwiddleIdle ==
    /\ tw_op = "none" /\ tw_x = <<>> /\ tw_r = <<>> /\ tw_self = <<>>
    /\ tw_out = [done |-> FALSE]

\* the state of everything but one specification's own variables
NotBarrettIdle ==
    CacheIdle /\ FpIdle /\ ModulusIdle /\ FactorIdle
    /\ Pow2Idle /\ RootIdle /\ TableIdle /\ TwiddleIdle
NotCacheIdle ==
    BarrettIdle /\ FpIdle /\ ModulusIdle /\ FactorIdle
    /\ Pow2Idle /\ RootIdle /\ TableIdle /\ TwiddleIdle
NotFpIdle ==
    BarrettIdle /\ CacheIdle /\ ModulusIdle /\ FactorIdle
    /\ Pow2Idle /\ RootIdle /\ TableIdle /\ TwiddleIdle
NotModulusIdle ==
    BarrettIdle /\ CacheIdle /\ FpIdle /\ FactorIdle
    /\ Pow2Idle /\ RootIdle /\ TableIdle /\ TwiddleIdle
NotFactorIdle ==
    BarrettIdle /\ CacheIdle /\ FpIdle /\ ModulusIdle
    /\ Pow2Idle /\ RootIdle /\ TableIdle /\ TwiddleIdle
NotPow2Idle ==
    BarrettIdle /\ CacheIdle /\ FpIdle /\ ModulusIdle
    /\ FactorIdle /\ RootIdle /\ TableIdle /\ TwiddleIdle
NotRootIdle ==
    BarrettIdle /\ CacheIdle /\ FpIdle /\ ModulusIdle
    /\ FactorIdle /\ Pow2Idle /\ TableIdle /\ TwiddleIdle
NotTableIdle ==
    BarrettIdle /\ CacheIdle /\ FpIdle /\ ModulusIdle
    /\ FactorIdle /\ Pow2Idle /\ RootIdle /\ TwiddleIdle
NotTwiddleIdle ==
    BarrettIdle /\ CacheIdle /\ FpIdle /\ ModulusIdle
    /\ FactorIdle /\ Pow2Idle /\ RootIdle /\ TableIdle

(***************************************************************************)
(* Specification SpecBarrett: Modulus<u8>::new on every u8 value, then one *)
(* reduce call on a word (every u8) or on two words (sampled).             *)
(***************************************************************************)
MaxSmall == 4
Stride == 37
MaxSliceLen == 3

Words(BITS) == {ToBig(n) : n \in 0..(Pow2Int(BITS) - 1)}

SampleWords(BITS) ==
    {ToBig(n) : n \in (0..MaxSmall)
                      \cup {Pow2Int(BITS) - 1 - k : k \in 0..MaxSmall}
                      \cup {Pow2Int(BITS - 1) - 1, Pow2Int(BITS - 1)}
                      \cup {n \in 0..(Pow2Int(BITS) - 1) : n % Stride = 0}}

\* the words slices are made of
SliceWords(BITS) ==
    {ToBig(n) : n \in {0, 1, Stride, Pow2Int(BITS) - 1}}

RECURSIVE Slices(_, _)
Slices(S, len) ==
    IF len = 0 THEN {<<>>}
    ELSE LET shorter == Slices(S, len - 1)
         IN  shorter \cup {Append(s, x) : s \in {t \in shorter : Len(t) = len - 1}, x \in S}

BarrettInit ==
    /\ NotBarrettIdle
    /\ \E value \in Words(U8_BITS) : b_modulus = Modulus_new(value, U8_BITS)
    /\ b_result = [done |-> FALSE]
    /\ \/ b_modulus.panic /\ b_form = "none" /\ b_self = <<>>
       \/ ~b_modulus.panic /\ b_form = "word"
                           /\ \E x \in Words(U8_BITS) : b_self = <<x>>
       \/ ~b_modulus.panic /\ b_form \in {"array2", "tuple"}
                           /\ \E lo \in SampleWords(U8_BITS), hi \in SampleWords(U8_BITS) :
                                  b_self = <<lo, hi>>
       \/ ~b_modulus.panic /\ b_form = "slice"
                           /\ b_self \in Slices(SliceWords(U8_BITS), MaxSliceLen)

\* what a two-word reduce returns: when b_plus_a_left + c does not fit the wide type
\* the addition panics (overflow checks on) or wraps (overflow checks off)
WideOutcomes(steps, BITS) ==
    LET ok == [done |-> TRUE, panic |-> FALSE, out |-> steps.out, r |-> steps.r, sum |-> steps.sum]
    IN  IF BigGe(steps.sum, BigPow2(2 * BITS)) THEN {ok, [done |-> TRUE, panic |-> TRUE]} ELSE {ok}

ReduceWord ==
    /\ b_form = "word" /\ ~b_result.done
    /\ b_result' = [done |-> TRUE, panic |-> FALSE, out |-> reduce(b_self[1], b_modulus, U8_BITS)]
    /\ UNCHANGED <<b_modulus, b_form, b_self, notBarrettVars>>

ReduceArray2 ==
    /\ b_form = "array2" /\ ~b_result.done
    /\ b_result' \in WideOutcomes(reduce_array2(b_self, b_modulus, U8_BITS), U8_BITS)
    /\ UNCHANGED <<b_modulus, b_form, b_self, notBarrettVars>>

ReduceTuple ==
    /\ b_form = "tuple" /\ ~b_result.done
    /\ b_result' \in WideOutcomes(reduce_tuple(b_self, b_modulus, U8_BITS), U8_BITS)
    /\ UNCHANGED <<b_modulus, b_form, b_self, notBarrettVars>>

\* what a slice reduce returns: unreachable!() panics on the empty slice, and an
\* overflowing b_plus_a_left + c panics or wraps as in the two-word reduce
SliceOutcomes(ret) ==
    IF ret.panic THEN {[done |-> TRUE, panic |-> TRUE]}
    ELSE LET ok == [done |-> TRUE, panic |-> FALSE, out |-> ret.out, accs |-> ret.accs]
         IN  IF ret.overflow THEN {ok, [done |-> TRUE, panic |-> TRUE]} ELSE {ok}

ReduceSlice ==
    /\ b_form = "slice" /\ ~b_result.done
    /\ b_result' \in SliceOutcomes(reduce_slice(b_self, b_modulus, U8_BITS))
    /\ UNCHANGED <<b_modulus, b_form, b_self, notBarrettVars>>

BarrettNext == ReduceWord \/ ReduceArray2 \/ ReduceTuple \/ ReduceSlice

SpecBarrett == BarrettInit /\ [][BarrettNext]_vars

(***************************************************************************)
(* Fp32 (field/fp32.rs): the prime and the table generator's outcome.      *)
(***************************************************************************)
P == 132120577
USIZE_BITS == 64

BigP == ToBig(P)

\* the guard of try_primitive_root: TRUE when it returns NoPrimitiveRoot before sampling
no_primitive_root(degree) ==
    LET modulus_sub_one == BigSub(BigP, <<1>>)
        quotient == BigDiv(modulus_sub_one, degree)
    IN  modulus_sub_one # wrapping_mul(quotient, degree, U32_BITS)

\* How generate_ntt_table(log_n) can end, for log_n < usize::BITS - 1:
\*   "panic"  (n * 2).try_into().unwrap() fails: 2n does not fit a u32
\*   "err"    try_minimal_primitive_root returned NoPrimitiveRoot (the degree does not
\*            divide P-1, or all 100 sampled candidates failed the primitivity test)
\*   "ok"     a table was built
generate_ntt_table_outcomes(log_n) ==
    LET n == BigPow2(log_n)
        degree == BigMul(n, <<2>>)
    IN  IF BitLen(degree) > U32_BITS THEN {"panic"}
        ELSE IF no_primitive_root(degree) THEN {"err"}
        ELSE {"ok", "err"}

(***************************************************************************)
(* Specification SpecCache: the threads of Threads call get_ntt_table and  *)
(* init_ntt_table, MaxCalls calls in all, in any interleaving.             *)
(*                                                                         *)
(* pc: "idle"     between calls                                            *)
(*     "g_cell"   get_ntt_table entered, about to read NTT_TABLE.get()     *)
(*     "g_lookup" inside tables.get(&log_n) of the fast path (no lock)     *)
(*     "i_lock"   init_ntt_table entered, waiting for NTT_MUTEX.lock()     *)
(*     "i_match"  lock held, about to match NTT_TABLE.get_mut()            *)
(*     "i_some"   Some branch: at the head of the loop over the difference *)
(*     "i_insert" Some branch: inside tables.insert(log_n, ..)             *)
(*     "i_none"   None branch: at the head of the loop over log_ns         *)
(*     "g_final"  init returned Ok: inside the final NTT_TABLE.get()       *)
(*                .unwrap().get(&log_n).unwrap() (no lock)                 *)
(*                                                                         *)
(* NTT_TABLE is a static mut: the lookups are not synchronised with        *)
(* tables.insert.  A lookup that overlaps an insert is a data race; it may *)
(* find the entry, miss it, or bring the process down.                     *)
(***************************************************************************)
MaxCalls == 3

\* the sizes asked for: two the prime supports, one it does not, one whose 2n is no u32
LogSizes == {2, 20, 21, 31}

InitArgs == {{}, {2, 20}, {20, 21}, {2, 31}}

\* generate_ntt_table's outcomes, per size
generate_outcomes == [log_n \in LogSizes |-> generate_ntt_table_outcomes(log_n)]

RECURSIVE SumOver(_, _)
SumOver(f, S) == IF S = {} THEN 0
                 ELSE LET x == CHOOSE y \in S : TRUE IN f[x] + SumOver(f, S \ {x})

CallsStarted == SumOver(calls, Threads)

Lookups == {"g_lookup", "g_final"}

Visible(log_n) == IF cell_set /\ log_n \in DOMAIN tables THEN tables[log_n] ELSE NoTable

Inserting == \E u \in Threads : pc[u] = "i_insert"

\* what a lookup of log_n can return: the entry, NoTable (None), or Crashed
LookupOutcomes(t) ==
    LET log_n == CHOOSE k \in call[t].log_ns : TRUE
        sure  == Visible(log_n)
    IN  IF call[t].raced THEN {sure, NoTable, Crashed} ELSE {sure}

CacheInit == CacheIdle /\ NotCacheIdle

\* a call ends: its result is recorded and the thread is idle again
Finish(t, c, kind, table) ==
    /\ call' = [call EXCEPT ![t] = [c EXCEPT !.result = [kind |-> kind, table |-> table]]]
    /\ pc' = [pc EXCEPT ![t] = "idle"]

GetCall(t, log_n) ==
    /\ ~aborted /\ pc[t] = "idle" /\ CallsStarted < MaxCalls
    /\ calls' = [calls EXCEPT ![t] = @ + 1]
    /\ call' = [call EXCEPT ![t] = [NoCall EXCEPT !.op = "get", !.log_ns = {log_n},
                                                  !.seen = Visible(log_n)]]
    /\ pc' = [pc EXCEPT ![t] = "g_cell"]
    /\ UNCHANGED <<cell_set, tables, mutex_holder, mutex_poisoned, aborted, notCacheVars>>

InitCall(t, log_ns) ==
    /\ ~aborted /\ pc[t] = "idle" /\ CallsStarted < MaxCalls
    /\ calls' = [calls EXCEPT ![t] = @ + 1]
    /\ call' = [call EXCEPT ![t] = [NoCall EXCEPT !.op = "init", !.log_ns = log_ns]]
    /\ pc' = [pc EXCEPT ![t] = "i_lock"]
    /\ UNCHANGED <<cell_set, tables, mutex_holder, mutex_poisoned, aborted, notCacheVars>>

\* if let Some(tables) = unsafe { NTT_TABLE.get() }: with Some the lookup begins
GetReadCell(t) ==
    /\ ~aborted /\ pc[t] = "g_cell"
    /\ IF cell_set
       THEN /\ pc' = [pc EXCEPT ![t] = "g_lookup"]
            /\ call' = [call EXCEPT ![t].raced = Inserting]
       ELSE /\ pc' = [pc EXCEPT ![t] = "i_lock"]
            /\ call' = call
    /\ UNCHANGED <<cell_set, tables, mutex_holder, mutex_poisoned, aborted, calls, notCacheVars>>

\* tables.get(&log_n) returns: Some(t) => return Ok(Arc::clone(t)); None => init_ntt_table
GetLookup(t) ==
    /\ ~aborted /\ pc[t] = "g_lookup"
    /\ \E found \in LookupOutcomes(t) :
          IF found = Crashed
          THEN /\ aborted' = TRUE
               /\ Finish(t, call[t], "crash", NoTable)
          ELSE /\ aborted' = aborted
               /\ IF found # NoTable
                  THEN Finish(t, call[t], "ok", found)
                  ELSE /\ pc' = [pc EXCEPT ![t] = "i_lock"]
                       /\ call' = call
    /\ UNCHANGED <<cell_set, tables, mutex_holder, mutex_poisoned, calls, notCacheVars>>

\* let _g = NTT_MUTEX.lock().unwrap(): blocks while held, panics when poisoned
InitLock(t) ==
    /\ ~aborted /\ pc[t] = "i_lock" /\ mutex_holder = "none"
    /\ IF mutex_poisoned
       THEN /\ Finish(t, call[t], "panic", NoTable)
            /\ mutex_holder' = mutex_holder
       ELSE /\ mutex_holder' = t
            /\ pc' = [pc EXCEPT ![t] = "i_match"]
            /\ call' = call
    /\ UNCHANGED <<cell_set, tables, mutex_poisoned, aborted, calls, notCacheVars>>

\* the Some branch taking every requested size instead of the difference
InitMatch_without_difference(t) ==
    /\ ~aborted /\ pc[t] = "i_match"
    /\ IF cell_set
       THEN /\ pc' = [pc EXCEPT ![t] = "i_some"]
            /\ call' = [call EXCEPT ![t].todo = call[t].log_ns]
       ELSE /\ pc' = [pc EXCEPT ![t] = "i_none"]
            /\ call' = [call EXCEPT ![t].todo = call[t].log_ns, ![t].local = <<>>]
    /\ UNCHANGED <<cell_set, tables, mutex_holder, mutex_poisoned, aborted, calls, notCacheVars>>

\* match unsafe { NTT_TABLE.get_mut() }: Some computes the difference, None an empty map
InitMatch(t) ==
    /\ ~aborted /\ pc[t] = "i_match"
    /\ IF cell_set
       THEN /\ pc' = [pc EXCEPT ![t] = "i_some"]
            /\ call' = [call EXCEPT ![t].todo = call[t].log_ns \ DOMAIN tables]
       ELSE /\ pc' = [pc EXCEPT ![t] = "i_none"]
            /\ call' = [call EXCEPT ![t].todo = call[t].log_ns, ![t].local = <<>>]
    /\ UNCHANGED <<cell_set, tables, mutex_holder, mutex_poisoned, aborted, calls, notCacheVars>>

\* init_ntt_table returns `kind` to its caller; _g is dropped, and a panic poisons the
\* mutex.  get_ntt_table goes on to its final lookup on Ok and returns the error on Err.
InitReturn(t, c, kind) ==
    /\ mutex_holder' = "none"
    /\ mutex_poisoned' = (mutex_poisoned \/ kind = "panic")
    /\ IF c.op = "get" /\ kind = "ok"
       THEN /\ pc' = [pc EXCEPT ![t] = "g_final"]
            /\ call' = [call EXCEPT ![t] = [c EXCEPT !.raced = FALSE]]
       ELSE Finish(t, c, kind, NoTable)

\* one round of `for &log_n in difference`: generate_ntt_table(log_n)?, then the insert
\* begins; after the last round Ok(())
InitSomeStep(t) ==
    /\ ~aborted /\ pc[t] = "i_some"
    /\ IF call[t].todo = {}
       THEN InitReturn(t, call[t], "ok")
       ELSE \E log_n \in call[t].todo : \E o \in generate_outcomes[log_n] :
               IF o = "ok"
               THEN /\ pc' = [pc EXCEPT ![t] = "i_insert"]
                    /\ call' = [u \in Threads |->
                                  IF u = t
                                  THEN [call[t] EXCEPT !.cur = [log_n |-> log_n, by |-> t,
                                                                 call |-> calls[t]]]
                                  ELSE IF pc[u] \in Lookups
                                  THEN [call[u] EXCEPT !.raced = TRUE]
                                  ELSE call[u]]
                    /\ UNCHANGED <<mutex_holder, mutex_poisoned>>
               ELSE InitReturn(t, call[t], o)
    /\ UNCHANGED <<cell_set, tables, aborted, calls, notCacheVars>>

\* tables.insert(log_n, Arc::new(temp_table)) completes
InitInsert(t) ==
    /\ ~aborted /\ pc[t] = "i_insert"
    /\ LET cur == call[t].cur
       IN  /\ tables' = [k \in DOMAIN tables \cup {cur.log_n} |->
                            IF k = cur.log_n THEN cur ELSE tables[k]]
           /\ call' = [call EXCEPT ![t].todo = @ \ {cur.log_n}, ![t].cur = NoTable]
    /\ pc' = [pc EXCEPT ![t] = "i_some"]
    /\ UNCHANGED <<cell_set, mutex_holder, mutex_poisoned, aborted, calls, notCacheVars>>

\* the None branch installing the map as soon as it holds its first table
InitNoneStep_install_early(t) ==
    /\ ~aborted /\ pc[t] = "i_none"
    /\ IF call[t].todo = {}
       THEN /\ IF cell_set
               THEN /\ InitReturn(t, call[t], "err")
                    /\ UNCHANGED <<cell_set, tables>>
               ELSE /\ cell_set' = TRUE
                    /\ tables' = call[t].local
                    /\ InitReturn(t, [call[t] EXCEPT !.local = <<>>], "ok")
       ELSE \E log_n \in call[t].todo : \E o \in generate_outcomes[log_n] :
               IF o = "ok"
               THEN LET map == [k \in DOMAIN call[t].local \cup {log_n} |->
                                  IF k = log_n
                                  THEN [log_n |-> log_n, by |-> t, call |-> calls[t]]
                                  ELSE call[t].local[k]]
                    IN  /\ call' = [call EXCEPT ![t].todo = @ \ {log_n}, ![t].local = map]
                        /\ cell_set' = TRUE
                        /\ tables' = map
                        /\ UNCHANGED <<pc, mutex_holder, mutex_poisoned>>
               ELSE /\ InitReturn(t, [call[t] EXCEPT !.local = <<>>], o)
                    /\ UNCHANGED <<cell_set, tables>>
    /\ UNCHANGED <<aborted, calls, notCacheVars>>

\* the None branch installing what its map holds when a size fails
InitNoneStep_install_on_error(t) ==
    /\ ~aborted /\ pc[t] = "i_none"
    /\ IF call[t].todo = {}
       THEN /\ IF cell_set
               THEN /\ InitReturn(t, call[t], "err")
                    /\ UNCHANGED <<cell_set, tables>>
               ELSE /\ cell_set' = TRUE
                    /\ tables' = call[t].local
                    /\ InitReturn(t, [call[t] EXCEPT !.local = <<>>], "ok")
       ELSE \E log_n \in call[t].todo : \E o \in generate_outcomes[log_n] :
               IF o = "ok"
               THEN /\ call' = [call EXCEPT
                                 ![t].todo = @ \ {log_n},
                                 ![t].local = [k \in DOMAIN call[t].local \cup {log_n} |->
                                                 IF k = log_n
                                                 THEN [log_n |-> log_n, by |-> t,
                                                       call |-> calls[t]]
                                                 ELSE call[t].local[k]]]
                    /\ UNCHANGED <<pc, cell_set, tables, mutex_holder, mutex_poisoned>>
               ELSE /\ InitReturn(t, [call[t] EXCEPT !.local = <<>>], o)
                    /\ cell_set' = TRUE
                    /\ tables' = call[t].local
    /\ UNCHANGED <<aborted, calls, notCacheVars>>

\* one round of `for log_n in log_ns` into the local map; after the last round
\* NTT_TABLE.set(map), which fails with NTTTableError when the cell is already set
InitNoneStep(t) ==
    /\ ~aborted /\ pc[t] = "i_none"
    /\ IF call[t].todo = {}
       THEN /\ IF cell_set
               THEN /\ InitReturn(t, call[t], "err")
                    /\ UNCHANGED <<cell_set, tables>>
               ELSE /\ cell_set' = TRUE
                    /\ tables' = call[t].local
                    /\ InitReturn(t, [call[t] EXCEPT !.local = <<>>], "ok")
       ELSE \E log_n \in call[t].todo : \E o \in generate_outcomes[log_n] :
               IF o = "ok"
               THEN /\ call' = [call EXCEPT
                                 ![t].todo = @ \ {log_n},
                                 ![t].local = [k \in DOMAIN call[t].local \cup {log_n} |->
                                                 IF k = log_n
                                                 THEN [log_n |-> log_n, by |-> t,
                                                       call |-> calls[t]]
                                                 ELSE call[t].local[k]]]
                    /\ UNCHANGED <<pc, cell_set, tables, mutex_holder, mutex_poisoned>>
               ELSE /\ InitReturn(t, [call[t] EXCEPT !.local = <<>>], o)
                    /\ UNCHANGED <<cell_set, tables>>
    /\ UNCHANGED <<aborted, calls, notCacheVars>>

\* the final lookup begins (it is not under the lock): NTT_TABLE.get().unwrap()
\* then .get(&log_n).unwrap() returns, or panics on None
GetFinal(t) ==
    /\ ~aborted /\ pc[t] = "g_final"
    /\ \E found \in LookupOutcomes(t) :
          IF found = Crashed
          THEN /\ aborted' = TRUE
               /\ Finish(t, call[t], "crash", NoTable)
          ELSE /\ aborted' = aborted
               /\ IF found # NoTable
                  THEN Finish(t, call[t], "ok", found)
                  ELSE Finish(t, call[t], "panic", NoTable)
    /\ UNCHANGED <<cell_set, tables, mutex_holder, mutex_poisoned, calls, notCacheVars>>

CacheNext ==
    \E t \in Threads :
        \/ \E log_n \in LogSizes : GetCall(t, log_n)
        \/ \E log_ns \in InitArgs : InitCall(t, log_ns)
        \/ GetReadCell(t)
        \/ GetLookup(t)
        \/ InitLock(t)
        \/ InitMatch(t)
        \/ InitSomeStep(t)
        \/ InitInsert(t)
        \/ InitNoneStep(t)
        \/ GetFinal(t)

SpecCache == CacheInit /\ [][CacheNext]_vars

\* a step of a call that has begun: the thread goes on in get_ntt_table or
\* init_ntt_table
CallStep(t) ==
    \/ GetReadCell(t)
    \/ GetLookup(t)
    \/ InitLock(t)
    \/ InitMatch(t)
    \/ InitSomeStep(t)
    \/ InitInsert(t)
    \/ InitNoneStep(t)
    \/ GetFinal(t)

\* fair scheduling: a thread inside a call that can go on does go on (a thread in
\* NTT_MUTEX.lock() can go on when the mutex is free); new calls are up to the callers
SpecCacheFair == SpecCache /\ \A t \in Threads : WF_vars(CallStep(t))

(***************************************************************************)
(* Fp32 values and operators (field/fp32.rs).  An Fp32 is its inner u32.   *)
(***************************************************************************)
\* const BARRETT_MODULUS: Modulus<u32> = Modulus::<u32>::new(P)
BARRETT_MODULUS == Modulus_new(BigP, U32_BITS)

\* u32::MAX
U32_MAX == BigSub(BigPow2(U32_BITS), <<1>>)

\* Fp32::new(value) and From<u32>::from(value): Self(value)
Fp32_new(value) == value
Fp32_from(value) == value
\* Zero::zero(), One::one()
Fp32_zero == <<>>
Fp32_one == <<1>>

\* The word-level helpers the operators call (modulo_traits: add_reduce, sub_reduce,
\* neg_reduce, mul_reduce, pow_reduce, inv_reduce, div_reduce) take canonical
\* representatives and return the canonical representative of the result; mul goes
\* through the Barrett reduction of the two-word product, inv is a^(modulus-2).
widen_mul(a, b, BITS) ==
    CHOOSE w \in {<<BigTrunc(p, BITS), BigShr(p, BITS)>> : p \in {BigMul(a, b)}} : TRUE

add_reduce(a, b, modulus) ==
    LET r == BigAdd(a, b)
    IN  IF BigGe(r, modulus) THEN BigSub(r, modulus) ELSE r

sub_reduce(a, b, modulus) ==
    IF BigGe(a, b) THEN BigSub(a, b) ELSE BigSub(modulus, BigSub(b, a))

neg_reduce(a, modulus) == IF a = <<>> THEN <<>> ELSE BigSub(modulus, a)

mul_reduce(a, b, modulus) ==
    CHOOSE r \in {reduce_tuple(w, modulus, U32_BITS).out :
                      w \in {widen_mul(a, b, U32_BITS)}} : TRUE

\* square-and-multiply over the bits of exp, low bit first: acc * base^exp; a zero
\* factor makes the product zero
RECURSIVE pow_loop(_, _, _, _)
pow_loop(base, exp, acc, modulus) ==
    IF exp = 0 THEN acc
    ELSE IF base = <<>> \/ acc = <<>> THEN <<>>
    ELSE CHOOSE r \in
             {pow_loop(sq, exp \div 2, next, modulus) :
                  sq \in {mul_reduce(base, base, modulus)},
                  next \in {IF exp % 2 = 1 THEN mul_reduce(acc, base, modulus) ELSE acc}} : TRUE

pow_reduce(a, exp, modulus) == pow_loop(a, exp, <<1>>, modulus)

inv_reduce(a, modulus) == pow_reduce(a, ToInt(modulus.value) - 2, modulus)

div_reduce(a, b, modulus) == mul_reduce(a, inv_reduce(b, modulus), modulus)

\* the conditional subtraction left out: the lazy product
factor_mul_reduce_lazy(self, rhs, modulus, BITS) ==
    wrapping_sub(wrapping_mul(self, rhs.value, BITS),
                 wrapping_mul(widen_mul(self, rhs.quotient, BITS)[2], modulus, BITS),
                 BITS)

\* MulModulo<u32, MulModuloFactor<u32>>::mul_reduce and MulModuloAssign's
\* mul_reduce_assign (modulus/internal_macros.rs): self * rhs.value through the high
\* word of self * rhs.quotient, wrapping, then one conditional subtraction
factor_mul_reduce(self, rhs, modulus, BITS) ==
    CHOOSE out \in
        {IF BigGe(tmp, modulus) THEN BigSub(tmp, modulus) ELSE tmp :
             tmp \in {wrapping_sub(wrapping_mul(self, rhs.value, BITS),
                                   wrapping_mul(widen_mul(self, rhs.quotient, BITS)[2],
                                                modulus, BITS),
                                   BITS)}} : TRUE

\* NTTField::to_root: Root::new(*self, Fp32((((self.0 as u64) << 32) / P as u64) as u32))
Fp32_to_root(self) ==
    [value |-> self,
     quotient |-> BigTrunc(BigDiv(BigShl(self, U32_BITS), BigP), U32_BITS)]

\* NTTField::from_root: root.value()
Fp32_from_root(root) == root.value

\* NTTField::mul_root / mul_root_assign: the MulModuloFactor built from the root's two
\* fields, then mul_reduce(r, P)
Fp32_mul_root(self, root) ==
    factor_mul_reduce(self, [value |-> root.value, quotient |-> root.quotient],
                      BigP, U32_BITS)

\* ReverseLsbs::reverse_lsbs: the low l bits of self in reverse order
reverse_lsbs(self, l) ==
    LET bit(k) == (self \div Pow2Int(k)) % 2
        RECURSIVE from(_)
        from(k) == IF k = l THEN 0 ELSE bit(k) * Pow2Int(l - 1 - k) + from(k + 1)
    IN  from(0)

\* u32::trailing_zeros
trailing_zeros(x, BITS) ==
    IF x = <<>> THEN BITS
    ELSE CHOOSE k \in 0..(BITS - 1) : BitOf(x, k) = 1 /\ \A j \in 0..(k - 1) : BitOf(x, j) = 0

\* decompose_len's div_ceil with the quotient not rounded up
div_ceil_floor(lhs, rhs) ==
    LET d == lhs \div rhs
    IN  d

\* decompose_len's const fn div_ceil, for rhs > 0
div_ceil(lhs, rhs) ==
    LET d == lhs \div rhs
        r == lhs % rhs
    IN  IF r > 0 THEN d + 1 ELSE d

\* Fp32::decompose_len: lhs / rhs panics when basis.trailing_zeros() is 0
decompose_len(basis) ==
    LET rhs == trailing_zeros(basis, U32_BITS)
    IN  IF rhs = 0 THEN [panic |-> TRUE, len |-> 0]
        ELSE [panic |-> FALSE, len |-> div_ceil(BARRETT_MODULUS.bit_count, rhs)]

\* while !temp.is_zero() { ret.push(Self(temp & mask)); temp >>= bits; }
RECURSIVE decompose_loop(_, _, _)
decompose_loop(temp, mask, bits) ==
    IF temp = <<>> THEN <<>>
    ELSE <<BigAnd(temp, mask)>>
         \o CHOOSE ret \in {decompose_loop(t, mask, bits) : t \in {BigShr(temp, bits)}} : TRUE

\* Vec::resize(len, value): truncates or pads
resize(ret, len, value) ==
    IF Len(ret) >= len THEN SubSeq(ret, 1, len)
    ELSE ret \o [i \in 1..(len - Len(ret)) |-> value]

\* Fp32::decompose; temp, bits, len, mask and ret are the code's locals
decompose(self, basis) ==
    CHOOSE out \in
        {IF len.panic THEN [panic |-> TRUE, digits |-> <<>>]
         ELSE CHOOSE res \in
                  {[panic |-> FALSE, digits |-> resize(ret, len.len, Fp32_zero)] :
                       ret \in {decompose_loop(temp, BigShr(U32_MAX, U32_BITS - bits), bits)}} :
                  TRUE :
             temp \in {self},
             bits \in {trailing_zeros(basis, U32_BITS)},
             len \in {decompose_len(basis)}} : TRUE

(***************************************************************************)
(* Specification SpecFp: one Fp32 operation on operands drawn from         *)
(* Elements (canonical field elements), raw words from RawWords and bases  *)
(* from Bases.                                                             *)
(***************************************************************************)
MaxFpSmall == 2

\* field elements: the smallest, the largest, and some in between
Elements ==
    {ToBig(n) : n \in (0..MaxFpSmall) \cup {P - 1 - k : k \in 0..MaxFpSmall}
                      \cup {65536, 65537, 66060288, 66060289, 67108864, 123456789}}

\* the dividends of / and /= (every non-zero element of Elements is a divisor)
Dividends == {ToBig(n) : n \in {0, 1, 65537, 123456789, P - 1}}

\* u32 words handed to Fp32::new and From<u32>: field elements and words from P up
RawWords == Elements \cup {BigP, BigAdd(BigP, <<1>>), BigPow2(U32_BITS - 1), U32_MAX}

\* every power of two a u32 holds
Bases == {BigPow2(k) : k \in 0..(U32_BITS - 1)}

Constructors == {"new", "from"}
Nullary == {"zero", "one"}
Binary == {"add", "add_assign", "sub", "sub_assign", "mul", "mul_assign"}
Division == {"div", "div_assign"}

FpOut(val) == [done |-> TRUE, panic |-> FALSE, val |-> val, digits |-> <<>>]
FpUnit == [done |-> TRUE, panic |-> FALSE, val |-> <<>>, digits |-> <<>>]

\* the divisor of div and the operand of inv are never zero
FpInit ==
    /\ NotFpIdle
    /\ f_out = [done |-> FALSE]
    /\ \/ f_op \in Constructors /\ f_a = <<>> /\ f_b \in RawWords
       \/ f_op \in Nullary /\ f_a = <<>> /\ f_b = <<>>
       \/ f_op \in Binary /\ f_a \in Elements /\ f_b \in Elements
       \/ f_op \in Division /\ f_a \in Dividends /\ f_b \in Elements \ {<<>>}
       \/ f_op = "neg" /\ f_a \in Elements /\ f_b = <<>>
       \/ f_op = "inv" /\ f_a \in Elements \ {<<>>} /\ f_b = <<>>
       \/ f_op = "decompose" /\ f_a \in Elements /\ f_b \in Bases
    /\ f_self = f_a

\* an operator returning a value
FpReturn(op, val) ==
    /\ f_op = op /\ ~f_out.done
    /\ f_out' = FpOut(val)
    /\ UNCHANGED <<f_op, f_a, f_b, f_self, notFpVars>>

\* an assigning operator: the result replaces self
FpAssign(op, val) ==
    /\ f_op = op /\ ~f_out.done
    /\ f_self' = val
    /\ f_out' = FpUnit
    /\ UNCHANGED <<f_op, f_a, f_b, notFpVars>>

FpNew == FpReturn("new", Fp32_new(f_b))
FpFrom == FpReturn("from", Fp32_from(f_b))
FpZero == FpReturn("zero", Fp32_zero)
FpOne == FpReturn("one", Fp32_one)
FpAdd == FpReturn("add", add_reduce(f_a, f_b, BigP))
FpAddAssign == FpAssign("add_assign", add_reduce(f_self, f_b, BigP))
FpSub == FpReturn("sub", sub_reduce(f_a, f_b, BigP))
FpSubAssign == FpAssign("sub_assign", sub_reduce(f_self, f_b, BigP))
FpMul == FpReturn("mul", mul_reduce(f_a, f_b, BARRETT_MODULUS))
FpMulAssign == FpAssign("mul_assign", mul_reduce(f_self, f_b, BARRETT_MODULUS))
FpDiv == FpReturn("div", div_reduce(f_a, f_b, BARRETT_MODULUS))
FpDivAssign == FpAssign("div_assign", div_reduce(f_self, f_b, BARRETT_MODULUS))
FpNeg == FpReturn("neg", neg_reduce(f_a, BigP))
FpInv == FpReturn("inv", inv_reduce(f_a, BARRETT_MODULUS))

FpDecompose ==
    /\ f_op = "decompose" /\ ~f_out.done
    /\ LET ret == decompose(f_a, f_b)
       IN  f_out' = [done |-> TRUE, panic |-> ret.panic, val |-> <<>>, digits |-> ret.digits]
    /\ UNCHANGED <<f_op, f_a, f_b, f_self, notFpVars>>

FpNext ==
    \/ FpNew \/ FpFrom \/ FpZero \/ FpOne
    \/ FpAdd \/ FpAddAssign \/ FpSub \/ FpSubAssign
    \/ FpMul \/ FpMulAssign \/ FpDiv \/ FpDivAssign
    \/ FpNeg \/ FpInv
    \/ FpDecompose

SpecFp == FpInit /\ [][FpNext]_vars

(***************************************************************************)
(* Specification SpecTwiddle: one of to_root, from_root, mul_root and      *)
(* mul_root_assign, on canonical field elements drawn from Elements and    *)
(* TwiddleElements; the root handed to the last three is r.to_root().      *)
(***************************************************************************)
MaxTwiddleStep == 3

\* field elements spread over [0, P): multiples of a sixteenth of 2^27, and of a prime
TwiddleElements ==
    {ToBig(k * 8388608) : k \in 1..MaxTwiddleStep}
        \cup {ToBig(k * 15485863) : k \in 1..MaxTwiddleStep}

TwiddleInputs == Elements \cup TwiddleElements

TwiddleInit ==
    /\ NotTwiddleIdle
    /\ tw_out = [done |-> FALSE]
    /\ tw_r \in TwiddleInputs
    /\ \/ tw_op \in {"to_root", "from_root"} /\ tw_x = <<>>
       \/ tw_op \in {"mul_root", "mul_root_assign"} /\ tw_x \in TwiddleInputs
    /\ tw_self = tw_x

TwiddleReturn(op, root, val) ==
    /\ tw_op = op /\ ~tw_out.done
    /\ tw_out' = [done |-> TRUE, root |-> root, val |-> val]
    /\ UNCHANGED <<tw_op, tw_x, tw_r, tw_self, notTwiddleVars>>

ToRoot == TwiddleReturn("to_root", Fp32_to_root(tw_r), <<>>)

FromRoot ==
    TwiddleReturn("from_root", Fp32_to_root(tw_r), Fp32_from_root(Fp32_to_root(tw_r)))

MulRoot ==
    TwiddleReturn("mul_root", Fp32_to_root(tw_r), Fp32_mul_root(tw_x, Fp32_to_root(tw_r)))

\* the product replaces self
MulRootAssign ==
    /\ tw_op = "mul_root_assign" /\ ~tw_out.done
    /\ tw_self' = Fp32_mul_root(tw_self, Fp32_to_root(tw_r))
    /\ tw_out' = [done |-> TRUE, root |-> Fp32_to_root(tw_r), val |-> <<>>]
    /\ UNCHANGED <<tw_op, tw_x, tw_r, notTwiddleVars>>

TwiddleNext == ToRoot \/ FromRoot \/ MulRoot \/ MulRootAssign

SpecTwiddle == TwiddleInit /\ [][TwiddleNext]_vars

(***************************************************************************)
(* Specification SpecModulus: Modulus<u8>::new on every u8 value and       *)
(* Modulus<u32>::new on u32 values around the limits of its two division   *)
(* paths and of its assertion.                                             *)
(***************************************************************************)
MaxModulusSmall == 2

\* 2^e - k and 2^e + k for the exponents where Modulus::new changes its path
NearPow2(exps, BITS) ==
    {BigSub(BigPow2(e), ToBig(k)) : e \in exps \cup {BITS}, k \in 1..(MaxModulusSmall + 1)}
        \cup {BigAdd(BigPow2(e), ToBig(k)) : e \in exps, k \in 0..MaxModulusSmall}

ModulusValues(BITS) ==
    IF BITS = U8_BITS THEN Words(U8_BITS)
    ELSE {ToBig(n) : n \in 0..(MaxModulusSmall + 1)}
             \cup NearPow2({HALF_BITS(BITS), BITS - 2, BITS - 1}, BITS)
             \cup {BigP}

ModulusInit ==
    /\ NotModulusIdle
    /\ m_bits \in {U8_BITS, U32_BITS}
    /\ m_value \in ModulusValues(m_bits)
    /\ m_out = [done |-> FALSE]

ModulusNew ==
    /\ ~m_out.done
    /\ m_out' = [done |-> TRUE, modulus |-> Modulus_new(m_value, m_bits)]
    /\ UNCHANGED <<m_bits, m_value, notModulusVars>>

ModulusNext == ModulusNew

SpecModulus == ModulusInit /\ [][ModulusNext]_vars

(***************************************************************************)
(* MulModuloFactor<T>  (modulus/internal_macros.rs, impl_mul_modulo_factor) *)
(***************************************************************************)
\* MulModuloFactor::new with the value shifted one bit short
MulModuloFactor_new_short_shift(value, modulus, BITS) ==
    IF modulus = <<>> THEN [panic |-> TRUE]
    ELSE [panic |-> FALSE, value |-> value,
          quotient |-> BigTrunc(BigDiv(BigShl(value, BITS - 1), modulus), BITS)]

\* the division panics when modulus is 0
MulModuloFactor_new(value, modulus, BITS) ==
    IF modulus = <<>> THEN [panic |-> TRUE]
    ELSE [panic |-> FALSE, value |-> value,
          quotient |-> BigTrunc(BigDiv(BigShl(value, BITS), modulus), BITS)]

mul_modulo_lazy(self, rhs, modulus, BITS) ==
    CHOOSE r \in
        {wrapping_sub(wrapping_mul(self.value, rhs, BITS),
                      wrapping_mul(w[2], modulus, BITS), BITS) :
             w \in {widen_mul(self.quotient, rhs, BITS)}} : TRUE

(***************************************************************************)
(* Specification SpecFactor: MulModuloFactor::new(value, modulus) with     *)
(* value < modulus, then mul_modulo_lazy(rhs, modulus), for u8 (every      *)
(* modulus) and u32 (sampled moduli).                                      *)
(***************************************************************************)
MaxFactorSmall == 2

\* words next to 0, to the middle and to the top of the word type, and the sevenths
\* of its range
FactorWords(BITS) ==
    {ToBig(n) : n \in 0..MaxFactorSmall}
        \cup {BigSub(BigPow2(e), ToBig(k)) : e \in {BITS - 1, BITS}, k \in 1..MaxFactorSmall}
        \cup {BigPow2(BITS - 1)}
        \cup {BigDiv(BigMul(BigPow2(BITS), ToBig(n)), <<7>>) : n \in 1..6}

FactorWordsU8 == FactorWords(U8_BITS)
FactorWordsU32 == FactorWords(U32_BITS)

FactorRhs(BITS) == IF BITS = U8_BITS THEN FactorWordsU8 ELSE FactorWordsU32

FactorModuli(BITS) ==
    IF BITS = U8_BITS THEN Words(U8_BITS) \ {<<>>}
    ELSE (FactorWordsU32 \ {<<>>}) \cup {BigP}

FactorValues(modulus, BITS) ==
    {v \in FactorRhs(BITS) \cup {BigSub(modulus, <<1>>)} : BigLt(v, modulus)}

FactorInit ==
    /\ NotFactorIdle
    /\ q_bits \in {U8_BITS, U32_BITS}
    /\ q_modulus \in FactorModuli(q_bits)
    /\ q_value \in FactorValues(q_modulus, q_bits)
    /\ q_factor = [built |-> FALSE]
    /\ q_rhs = <<>>
    /\ q_out = [done |-> FALSE]

FactorNew ==
    /\ ~q_factor.built
    /\ q_factor' = [built |-> TRUE, factor |-> MulModuloFactor_new(q_value, q_modulus, q_bits)]
    /\ UNCHANGED <<q_bits, q_modulus, q_value, q_rhs, q_out, notFactorVars>>

MulModuloLazy ==
    /\ q_factor.built /\ ~q_factor.factor.panic /\ ~q_out.done
    /\ \E rhs \in FactorRhs(q_bits) :
           /\ q_rhs' = rhs
           /\ q_out' = [done |-> TRUE,
                        val |-> mul_modulo_lazy(q_factor.factor, rhs, q_modulus, q_bits)]
    /\ UNCHANGED <<q_bits, q_modulus, q_value, q_factor, notFactorVars>>

FactorNext == FactorNew \/ MulModuloLazy

SpecFactor == FactorInit /\ [][FactorNext]_vars

(***************************************************************************)
(* PowOf2Modulus<T>  (modulus/powof2/internal_macros.rs).  The operations  *)
(* carry the prefix pow2_ where the prime modulus has one of the same name.*)
(***************************************************************************)
is_power_of_two(x, BITS) == Cardinality({i \in 0..(BITS - 1) : BitOf(x, i) = 1}) = 1

PowOf2Modulus_new(value, BITS) ==
    IF ~(BigLt(<<1>>, value) /\ is_power_of_two(value, BITS)) THEN [panic |-> TRUE]
    ELSE [panic |-> FALSE, mask |-> BigSub(value, <<1>>)]

wrapping_neg(x, BITS) == wrapping_sub(<<>>, x, BITS)

pow2_reduce(self, modulus) == BigAnd(self, modulus.mask)

pow2_add_reduce(self, rhs, modulus, BITS) == BigAnd(wrapping_add(self, rhs, BITS), modulus.mask)

pow2_sub_reduce(self, rhs, modulus, BITS) == BigAnd(wrapping_sub(self, rhs, BITS), modulus.mask)

pow2_neg_reduce(self, modulus, BITS) == BigAnd(wrapping_neg(self, BITS), modulus.mask)

\* mul_reduce without the mask
pow2_mul_reduce_unmasked(self, rhs, modulus, BITS) == wrapping_mul(self, rhs, BITS)

pow2_mul_reduce(self, rhs, modulus, BITS) == BigAnd(wrapping_mul(self, rhs, BITS), modulus.mask)

\* power after n more rounds of power = power.mul_reduce(power, modulus)
RECURSIVE squarings(_, _, _, _)
squarings(power, n, modulus, BITS) ==
    IF n = 0 THEN power
    ELSE CHOOSE r \in {squarings(sq, n - 1, modulus, BITS) :
                           sq \in {pow2_mul_reduce(power, power, modulus, BITS)}} : TRUE

\* the for loop of exp_reduce with n rounds to go
RECURSIVE exp_loop(_, _, _, _, _, _)
exp_loop(exp, power, intermediate, n, modulus, BITS) ==
    IF n = 0 THEN intermediate
    ELSE CHOOSE r \in
             {CHOOSE r2 \in
                  {exp_loop(BigShr(exp, 1), sq, next, n - 1, modulus, BITS) :
                       next \in {IF BitOf(BigShr(exp, 1), 0) = 1
                                  THEN pow2_mul_reduce(intermediate, sq, modulus, BITS)
                                  ELSE intermediate}} : TRUE :
                  sq \in {pow2_mul_reduce(power, power, modulus, BITS)}} : TRUE

\* exp_reduce shifting the trailing zeros out of exp without squaring for them
exp_reduce_no_fast_forward(self, exp, modulus, BITS, E_BITS) ==
    IF exp = <<>> THEN <<1>>
    ELSE LET exp_trailing_zeros == trailing_zeros(exp, E_BITS)
             shifted == BigShr(exp, exp_trailing_zeros)
         IN  IF shifted = <<1>> THEN self
             ELSE exp_loop(shifted, self, self,
                           (E_BITS - leading_zeros(shifted, E_BITS)) - 1, modulus, BITS)

\* E_BITS is <E as Bits>::BITS of the exponent's type
exp_reduce(self, exp, modulus, BITS, E_BITS) ==
    IF exp = <<>> THEN <<1>>
    ELSE LET exp_trailing_zeros == trailing_zeros(exp, E_BITS)
             shifted == BigShr(exp, exp_trailing_zeros)
         IN  CHOOSE r \in
                 {IF shifted = <<1>> THEN power
                  ELSE exp_loop(shifted, power, power,
                                (E_BITS - leading_zeros(shifted, E_BITS)) - 1, modulus, BITS) :
                      power \in {squarings(self, exp_trailing_zeros, modulus, BITS)}} : TRUE

exp_power_of_2_reduce(self, exp_log, modulus, BITS) == squarings(self, exp_log, modulus, BITS)

\* the fold of dot_product_reduce over zip(a, b), from element i on
RECURSIVE dot_fold(_, _, _, _, _)
dot_fold(a, b, i, acc, BITS) ==
    IF i > Len(a) \/ i > Len(b) THEN acc
    ELSE dot_fold(a, b, i + 1, wrapping_add(wrapping_mul(a[i], b[i], BITS), acc, BITS), BITS)

dot_product_reduce(a, b, modulus, BITS) == pow2_reduce(dot_fold(a, b, 1, <<>>, BITS), modulus)

(***************************************************************************)
(* Specification SpecPow2: PowOf2Modulus<u8>::new on every u8 value, then  *)
(* one operation on sampled words.  Exponents are of type u8.              *)
(***************************************************************************)
MaxDotLen == 2
MaxExpLog == 9

Pow2Words == SampleWords(U8_BITS)

\* exponents: the sampled words and every power of two
Pow2Exponents == Pow2Words \cup {BigPow2(k) : k \in 0..(U8_BITS - 1)}

DotWords == {ToBig(n) : n \in {0, 3, Pow2Int(U8_BITS - 1) + 1, Pow2Int(U8_BITS) - 1}}

DotSlices == Slices(DotWords, MaxDotLen)

Pow2Result(val) == [done |-> TRUE, panic |-> FALSE, val |-> val]

\* debug_assert!: the call panics when the assertion is compiled in and fails
DebugAsserted(holds, val) ==
    IF holds THEN {Pow2Result(val)} ELSE {Pow2Result(val), [done |-> TRUE, panic |-> TRUE]}

Pow2Init ==
    /\ NotPow2Idle
    /\ p_value \in Words(U8_BITS)
    /\ p_modulus = [built |-> FALSE]
    /\ p_op = "none" /\ p_x = <<>> /\ p_y = <<>>
    /\ p_out = [done |-> FALSE]

Pow2New ==
    /\ ~p_modulus.built
    /\ p_modulus' = [built |-> TRUE] @@ PowOf2Modulus_new(p_value, U8_BITS)
    /\ UNCHANGED <<p_value, p_op, p_x, p_y, p_out, notPow2Vars>>

\* the modulus is built and no operation was called on it yet
Pow2Ready == p_modulus.built /\ ~p_modulus.panic /\ ~p_out.done

Pow2Call(op, x, y, outs) ==
    /\ p_op' = op /\ p_x' = x /\ p_y' = y
    /\ p_out' \in outs
    /\ UNCHANGED <<p_value, p_modulus, notPow2Vars>>

Pow2Reduce ==
    /\ Pow2Ready
    /\ \E x \in Pow2Words :
           Pow2Call("reduce", x, <<>>, {Pow2Result(pow2_reduce(x, p_modulus))})

Pow2AddReduce ==
    /\ Pow2Ready
    /\ \E x \in Pow2Words, y \in Pow2Words :
           Pow2Call("add_reduce", x, y, {Pow2Result(pow2_add_reduce(x, y, p_modulus, U8_BITS))})

Pow2SubReduce ==
    /\ Pow2Ready
    /\ \E x \in Pow2Words, y \in Pow2Words :
           Pow2Call("sub_reduce", x, y, {Pow2Result(pow2_sub_reduce(x, y, p_modulus, U8_BITS))})

Pow2NegReduce ==
    /\ Pow2Ready
    /\ \E x \in Pow2Words :
           Pow2Call("neg_reduce", x, <<>>, {Pow2Result(pow2_neg_reduce(x, p_modulus, U8_BITS))})

Pow2MulReduce ==
    /\ Pow2Ready
    /\ \E x \in Pow2Words, y \in Pow2Words :
           Pow2Call("mul_reduce", x, y, {Pow2Result(pow2_mul_reduce(x, y, p_modulus, U8_BITS))})

Pow2ExpReduce ==
    /\ Pow2Ready
    /\ \E x \in Pow2Words, exp \in Pow2Exponents :
           Pow2Call("exp_reduce", x, exp,
                    IF exp = <<>> THEN {Pow2Result(<<1>>)}
                    ELSE DebugAsserted(~BigLt(p_modulus.mask, x),
                                       exp_reduce(x, exp, p_modulus, U8_BITS, U8_BITS)))

Pow2ExpPowerOf2Reduce ==
    /\ Pow2Ready
    /\ \E x \in Pow2Words, exp_log \in 0..MaxExpLog :
           Pow2Call("exp_power_of_2_reduce", x, ToBig(exp_log),
                    {Pow2Result(exp_power_of_2_reduce(x, exp_log, p_modulus, U8_BITS))})

Pow2DotProductReduce ==
    /\ Pow2Ready
    /\ \E a \in DotSlices, b \in DotSlices :
           Pow2Call("dot_product_reduce", a, b,
                    DebugAsserted(Len(a) = Len(b),
                                  dot_product_reduce(a, b, p_modulus, U8_BITS)))

Pow2Next ==
    \/ Pow2New
    \/ Pow2Reduce \/ Pow2AddReduce \/ Pow2SubReduce \/ Pow2NegReduce \/ Pow2MulReduce
    \/ Pow2ExpReduce \/ Pow2ExpPowerOf2Reduce
    \/ Pow2DotProductReduce

SpecPow2 == Pow2Init /\ [][Pow2Next]_vars

(***************************************************************************)
(* Primitive roots  (field/fp32.rs, impl NTTField for Fp32).               *)
(***************************************************************************)
Fp32_pow(self, rhs) == pow_reduce(self, rhs, BARRETT_MODULUS)

Fp32_square(self) == mul_reduce(self, self, BARRETT_MODULUS)

\* is_primitive_root testing root^degree = 1 instead of root^(degree/2) = P-1
is_primitive_root_full_power(root, degree) ==
    IF ~(BigLt(<<1>>, degree) /\ is_power_of_two(degree, U32_BITS)) THEN "panic"
    ELSE IF root = <<>> THEN "false"
    ELSE IF Fp32_pow(root, ToInt(degree)) = <<1>> THEN "true"
    ELSE "false"

\* "panic" when the assertion on degree fails, else "true" or "false"
is_primitive_root(root, degree) ==
    IF ~(BigLt(<<1>>, degree) /\ is_power_of_two(degree, U32_BITS)) THEN "panic"
    ELSE IF root = <<>> THEN "false"
    ELSE IF Fp32_pow(root, ToInt(BigShr(degree, 1))) = BigSub(BigP, <<1>>) THEN "true"
    ELSE "false"

\* try_primitive_root before the search: "panic" (P - 1) / 0, "err" NoPrimitiveRoot,
\* "search" when degree divides P - 1
try_primitive_root_check(degree) ==
    IF degree = <<>> THEN "panic"
    ELSE IF no_primitive_root(degree) THEN "err"
    ELSE "search"

\* one call of the closure of (0..100).any on the sample the generator returned
search_round(degree, sample) ==
    CHOOSE round \in
        {[w |-> w, primitive |-> is_primitive_root(w, degree)] :
             w \in {Fp32_pow(sample, ToInt(BigDiv(BigSub(BigP, <<1>>), degree)))}} : TRUE

\* the round without the comparison: the root the search found is kept
minimal_round_keep_found(root, current_generator, generator_sq) ==
    <<root, mul_reduce(current_generator, generator_sq, BARRETT_MODULUS)>>

\* one round of try_minimal_primitive_root's for loop: <<root, current_generator>>
minimal_round(root, current_generator, generator_sq) ==
    <<IF BigLt(current_generator, root) THEN current_generator ELSE root,
      mul_reduce(current_generator, generator_sq, BARRETT_MODULUS)>>

(***************************************************************************)
(* Specification SpecRoot: one call of try_primitive_root or of            *)
(* try_minimal_primitive_root; the random generator returns any of         *)
(* RootSamples at each draw.                                               *)
(***************************************************************************)
SearchAttempts == 100
MaxRootSample == 2
MaxLogDegree == 3

\* the exponent of 2 in P - 1
P_TWO_ADICITY == trailing_zeros(BigSub(BigP, <<1>>), U32_BITS)

\* what rng.sample(distr) can return: values of [2, P-1] with both ends; 2 and P-1 are
\* squares modulo P, 5 and 11 are not
RootSamples ==
    {ToBig(n) : n \in 2..MaxRootSample} \cup {<<5>>, <<11>>, BigSub(BigP, <<1>>)}

\* powers of two above 1 that divide P - 1: the small ones and the largest
Pow2Degrees ==
    {BigPow2(k) : k \in (1..MaxLogDegree) \cup {P_TWO_ADICITY}}

\* degrees dividing P - 1 that are not powers of two above 1
OtherDivisors == {<<1>>, <<3>>}

\* degrees that do not divide P - 1
NonDivisors ==
    {<<>>, <<5>>, ToBig(P), BigPow2(P_TWO_ADICITY + 1), BigPow2(U32_BITS - 1),
     BigMul(<<3>>, BigPow2(P_TWO_ADICITY + 1)), BigSub(BigPow2(U32_BITS), <<1>>)}

SearchDegrees == Pow2Degrees \cup OtherDivisors

\* the closure's result for every degree searched and every sample
SearchRounds ==
    {[degree |-> degree, sample |-> sample, round |-> search_round(degree, sample)] :
         degree \in SearchDegrees, sample \in RootSamples}

SearchRound(degree, sample) ==
    (CHOOSE entry \in SearchRounds : entry.degree = degree /\ entry.sample = sample).round

RootInit ==
    /\ NotRootIdle
    /\ \/ /\ r_op = "try_primitive_root"
          /\ r_degree \in Pow2Degrees \cup OtherDivisors \cup NonDivisors
       \/ /\ r_op = "try_minimal_primitive_root"
          /\ r_degree \in {BigPow2(k) : k \in 1..MaxLogDegree}
                              \cup OtherDivisors \cup NonDivisors
    /\ r_pc = "start" /\ r_tries = 0
    /\ r_w = <<>> /\ r_root = <<>> /\ r_current = <<>> /\ r_i = 0
    /\ r_out = [done |-> FALSE]

RootReturn(kind, val) ==
    /\ r_pc' = "done"
    /\ r_out' = [done |-> TRUE, kind |-> kind, val |-> val]

\* the division and the divisibility test
TryStart ==
    /\ r_pc = "start"
    /\ LET check == try_primitive_root_check(r_degree)
       IN  IF check = "search" THEN r_pc' = "search" /\ UNCHANGED r_out
           ELSE RootReturn(check, <<>>)
    /\ UNCHANGED <<r_op, r_degree, r_tries, r_w, r_root, r_current, r_i, notRootVars>>

\* the closure called again and again, without the bound of 0..100
TrySample_unbounded ==
    /\ r_pc = "search"
    /\ \E sample \in RootSamples :
           LET round == SearchRound(r_degree, sample)
           IN  /\ r_w' = round.w
               /\ IF round.primitive = "panic"
                   THEN /\ RootReturn("panic", <<>>)
                        /\ r_tries' = r_tries + 1
                        /\ UNCHANGED <<r_root, r_current>>
                   ELSE IF round.primitive = "false"
                   THEN /\ r_tries' = r_tries + 1
                        /\ UNCHANGED <<r_pc, r_out, r_root, r_current>>
                   ELSE IF r_op = "try_primitive_root"
                   THEN /\ RootReturn("ok", round.w)
                        /\ r_tries' = r_tries + 1
                        /\ UNCHANGED <<r_root, r_current>>
                   ELSE /\ r_pc' = "walk"
                        /\ r_tries' = 0
                        /\ r_root' = round.w /\ r_current' = round.w
                        /\ UNCHANGED r_out
    /\ UNCHANGED <<r_op, r_degree, r_i, notRootVars>>

\* one more call of the closure; a primitive w ends the search.  r_tries counts the
\* calls while the iterator lives: try_minimal_primitive_root goes on without it.
TrySample ==
    /\ r_pc = "search" /\ r_tries < SearchAttempts
    /\ \E sample \in RootSamples :
           LET round == SearchRound(r_degree, sample)
           IN  /\ r_w' = round.w
               /\ IF round.primitive = "panic"
                   THEN /\ RootReturn("panic", <<>>)
                        /\ r_tries' = r_tries + 1
                        /\ UNCHANGED <<r_root, r_current>>
                   ELSE IF round.primitive = "false"
                   THEN /\ r_tries' = r_tries + 1
                        /\ UNCHANGED <<r_pc, r_out, r_root, r_current>>
                   ELSE IF r_op = "try_primitive_root"
                   THEN /\ RootReturn("ok", round.w)
                        /\ r_tries' = r_tries + 1
                        /\ UNCHANGED <<r_root, r_current>>
                   ELSE /\ r_pc' = "walk"
                        /\ r_tries' = 0
                        /\ r_root' = round.w /\ r_current' = round.w
                        /\ UNCHANGED r_out
    /\ UNCHANGED <<r_op, r_degree, r_i, notRootVars>>

\* every call of the closure returned false
TryExhausted ==
    /\ r_pc = "search" /\ r_tries = SearchAttempts
    /\ RootReturn("err", <<>>)
    /\ UNCHANGED <<r_op, r_degree, r_tries, r_w, r_root, r_current, r_i, notRootVars>>

\* one round of for _ in 0..degree; generator_sq is the square of the root found
MinimalStep ==
    /\ r_pc = "walk" /\ r_i < ToInt(r_degree)
    /\ LET round == minimal_round(r_root, r_current, Fp32_square(r_w))
       IN  r_root' = round[1] /\ r_current' = round[2]
    /\ r_i' = r_i + 1
    /\ UNCHANGED <<r_op, r_degree, r_pc, r_tries, r_w, r_out, notRootVars>>

MinimalReturn ==
    /\ r_pc = "walk" /\ r_i = ToInt(r_degree)
    /\ RootReturn("ok", r_root)
    /\ UNCHANGED <<r_op, r_degree, r_tries, r_w, r_root, r_current, r_i, notRootVars>>

RootNext == TryStart \/ TrySample \/ TryExhausted \/ MinimalStep \/ MinimalReturn

SpecRoot == RootInit /\ [][RootNext]_vars

\* the calling thread keeps running: a call that can take a step takes it
SpecRootFair == SpecRoot /\ WF_vars(RootNext)

(***************************************************************************)
(* Specification SpecTable: one call of generate_ntt_table(log_n).  The    *)
(* call of try_minimal_primitive_root is one step with every outcome the   *)
(* samples of the generator allow; each round of the two for loops is a    *)
(* step.  Slot j of a vector is element j + 1 of the sequence.             *)
(***************************************************************************)
MaxTableLog == 4

\* log_n with a table, one where 2n does not divide P - 1 and one where 2n is no u32
TableLogs == (0..MaxTableLog) \cup {P_TWO_ADICITY, U32_BITS - 1}

\* (n * 2).try_into().unwrap(): the degree as a u32, or the panic of unwrap
table_degree(log_n) ==
    IF log_n + 1 >= U32_BITS THEN [panic |-> TRUE, degree |-> <<>>]
    ELSE [panic |-> FALSE, degree |-> BigPow2(log_n + 1)]

\* the for loop of try_minimal_primitive_root run to its end
RECURSIVE minimal_walk(_, _, _, _)
minimal_walk(root, current_generator, generator_sq, rounds) ==
    IF rounds = 0 THEN root
    ELSE CHOOSE r \in
             {minimal_walk(round[1], round[2], generator_sq, rounds - 1) :
                  round \in {minimal_round(root, current_generator, generator_sq)}} : TRUE

\* try_minimal_primitive_root(degree) after try_primitive_root returned Ok(w)
minimal_from(w, degree) ==
    CHOOSE r \in {minimal_walk(w, w, generator_sq, ToInt(degree)) :
                      generator_sq \in {Fp32_square(w)}} : TRUE

\* <Self as NTTField>::Root::default()
Root_default == [value |-> <<>>, quotient |-> <<>>]

\* vec![Root::default(); n] with slot 0 assigned Self::one().to_root()
fresh_powers(n) == [j \in 1..n |-> IF j = 1 THEN Fp32_to_root(Fp32_one) ELSE Root_default]
fresh_writes(n) == [j \in 1..n |-> IF j = 1 THEN 1 ELSE 0]

TableInit ==
    /\ NotTableIdle
    /\ n_log_n \in TableLogs
    /\ n_pc = "start" /\ n_w = <<>> /\ n_i = 0 /\ n_power = <<>>
    /\ n_table = NoNttTable /\ n_writes = NoWrites
    /\ n_out = [done |-> FALSE]

TableReturn(kind, table) ==
    /\ n_pc' = "done"
    /\ n_out' = [done |-> TRUE, kind |-> kind, table |-> table]

\* n, root, inv_root, root_factor, power and root_powers with its slot 0; an error of
\* the search is returned by ?
TableStart ==
    /\ n_pc = "start"
    /\ LET d == table_degree(n_log_n)
           check == IF d.panic THEN "panic" ELSE try_primitive_root_check(d.degree)
       IN  IF check # "search"
           THEN /\ TableReturn(check, NoNttTable)
                /\ UNCHANGED <<n_w, n_i, n_power, n_table, n_writes>>
           ELSE \E sample \in RootSamples :
                    LET round == search_round(d.degree, sample)
                        n == Pow2Int(n_log_n)
                    IN  /\ n_w' = round.w
                        /\ IF round.primitive = "true"
                           THEN LET root == minimal_from(round.w, d.degree)
                                IN  /\ n_table' = [root |-> root,
                                                   inv_root |-> inv_reduce(root, BARRETT_MODULUS),
                                                   root_powers |-> fresh_powers(n),
                                                   inv_root_powers |-> <<>>]
                                    /\ n_writes' = [root_powers |-> fresh_writes(n),
                                                    inv_root_powers |-> <<>>]
                                    /\ n_power' = root
                                    /\ n_i' = 1
                                    /\ n_pc' = "forward"
                                    /\ UNCHANGED n_out
                           ELSE /\ TableReturn(IF round.primitive = "panic" THEN "panic" ELSE "err",
                                               NoNttTable)
                                /\ UNCHANGED <<n_i, n_power, n_table, n_writes>>
    /\ UNCHANGED <<n_log_n, notTableVars>>

\* one round of the first loop with the slot given: root_powers[slot] = power.to_root();
\* power.mul_root_assign(root_factor)
ForwardRound(slot) ==
    /\ n_table' = [n_table EXCEPT !.root_powers[slot + 1] = Fp32_to_root(n_power)]
    /\ n_writes' = [n_writes EXCEPT !.root_powers[slot + 1] = @ + 1]
    /\ n_power' = Fp32_mul_root(n_power, Fp32_to_root(n_table.root))
    /\ n_i' = n_i + 1

\* the first loop with the exponent as the slot: no bit reversal
TableForward_in_order ==
    /\ n_pc = "forward" /\ n_i < Pow2Int(n_log_n)
    /\ ForwardRound(n_i)
    /\ UNCHANGED <<n_log_n, n_pc, n_w, n_out, notTableVars>>

\* for i in 1..n: one round
TableForward ==
    /\ n_pc = "forward" /\ n_i < Pow2Int(n_log_n)
    /\ ForwardRound(reverse_lsbs(n_i, n_log_n))
    /\ UNCHANGED <<n_log_n, n_pc, n_w, n_out, notTableVars>>

\* between the loops: inv_root_factor, inv_root_powers with its slot 0, power = inv_root
TableTurn ==
    /\ n_pc = "forward" /\ n_i = Pow2Int(n_log_n)
    /\ n_table' = [n_table EXCEPT !.inv_root_powers = fresh_powers(Pow2Int(n_log_n))]
    /\ n_writes' = [n_writes EXCEPT !.inv_root_powers = fresh_writes(Pow2Int(n_log_n))]
    /\ n_power' = n_table.inv_root
    /\ n_i' = 1
    /\ n_pc' = "inverse"
    /\ UNCHANGED <<n_log_n, n_w, n_out, notTableVars>>

\* one round of the second loop with the slot given
InverseRound(slot) ==
    /\ n_table' = [n_table EXCEPT !.inv_root_powers[slot + 1] = Fp32_to_root(n_power)]
    /\ n_writes' = [n_writes EXCEPT !.inv_root_powers[slot + 1] = @ + 1]
    /\ n_power' = Fp32_mul_root(n_power, Fp32_to_root(n_table.inv_root))
    /\ n_i' = n_i + 1

\* the second loop without the shift by one: i.reverse_lsbs(log_n)
TableInverse_unshifted ==
    /\ n_pc = "inverse" /\ n_i < Pow2Int(n_log_n)
    /\ InverseRound(reverse_lsbs(n_i, n_log_n))
    /\ UNCHANGED <<n_log_n, n_pc, n_w, n_out, notTableVars>>

\* for i in 1..n: one round
TableInverse ==
    /\ n_pc = "inverse" /\ n_i < Pow2Int(n_log_n)
    /\ InverseRound(reverse_lsbs(n_i - 1, n_log_n) + 1)
    /\ UNCHANGED <<n_log_n, n_pc, n_w, n_out, notTableVars>>

\* inv_degree and Ok(NTTTable::new(..))
TableFinish ==
    /\ n_pc = "inverse" /\ n_i = Pow2Int(n_log_n)
    /\ TableReturn("ok",
                   [root |-> n_table.root, inv_root |-> n_table.inv_root,
                    log_n |-> n_log_n, n |-> Pow2Int(n_log_n),
                    inv_degree |-> Fp32_to_root(inv_reduce(ToBig(Pow2Int(n_log_n)),
                                                           BARRETT_MODULUS)),
                    root_powers |-> n_table.root_powers,
                    inv_root_powers |-> n_table.inv_root_powers])
    /\ UNCHANGED <<n_log_n, n_w, n_i, n_power, n_table, n_writes, notTableVars>>

TableNext == TableStart \/ TableForward \/ TableTurn \/ TableInverse \/ TableFinish

SpecTable == TableInit /\ [][TableNext]_vars

----------------------------------------------------------------------------
\* C1: for every valid Modulus and every word x, the one-word Barrett reduce returns
\* exactly x mod value, a result in [0, value).
C1_ReduceWordExact ==
    (b_form = "word" /\ b_result.done) =>
        /\ ~b_result.panic
        /\ ToInt(b_result.out) = ToInt(b_self[1]) % ToInt(b_modulus.value)
        /\ ToInt(b_result.out) \in 0..(ToInt(b_modulus.value) - 1)

\* C1 witness: a word at least as large as the modulus has been reduced to a
\* non-zero remainder
C1_Witness ==
    /\ b_form = "word" /\ b_result.done
    /\ BigGe(b_self[1], BigDouble(b_modulus.value))
    /\ b_result.out # <<>>

\* the number lo + hi * 2^BITS (two u8 words: below 2^16)
WideValue(self, BITS) == ToInt(self[1]) + ToInt(self[2]) * Pow2Int(BITS)

\* C2: for every valid Modulus and every two-word input (lo, hi), in both forms, reduce
\* returns (lo + hi*2^BITS) mod value in [0, value); b_plus_a_left + c stays within the
\* wide type, and the remainder before the final correction is below 2*value.
C2_ReduceWideExact ==
    (b_form \in {"array2", "tuple"} /\ b_result.done) =>
        /\ ~b_result.panic
        /\ ToInt(b_result.out) = WideValue(b_self, U8_BITS) % ToInt(b_modulus.value)
        /\ ToInt(b_result.out) \in 0..(ToInt(b_modulus.value) - 1)
        /\ ToInt(b_result.sum) <= Pow2Int(2 * U8_BITS) - 1
        /\ ToInt(b_result.r) < 2 * ToInt(b_modulus.value)

\* C2 witness: a value with a non-zero high word was reduced and needed the final
\* subtraction
C2_Witness ==
    /\ b_form = "tuple" /\ b_result.done /\ ~b_result.panic
    /\ b_self[2] # <<>>
    /\ BigGe(b_result.r, b_modulus.value)
    /\ b_result.out # <<>>


----------------------------------------------------------------------------
\* the size a get_ntt_table call asks for
ArgLogN(t) == CHOOSE k \in call[t].log_ns : TRUE

\* the thread's last call is over (it returned, panicked, or the process died in it)
Ended(t) == pc[t] = "idle" /\ call[t].result.kind # "none"

\* C3: once a table for log_n is visible in the cache, every later get_ntt_table(log_n)
\* returns that same shared table, and the entry is never removed or replaced.
\* (call[t].seen is the entry that was visible when the call began.)
C3_SameTableOnceVisible ==
    \A t \in Threads :
        (call[t].op = "get" /\ call[t].seen # NoTable) =>
            /\ Visible(ArgLogN(t)) = call[t].seen
            /\ Ended(t) => call[t].result = [kind |-> "ok", table |-> call[t].seen]

\* C4: no thread is inside the unlocked map lookup of get_ntt_table while another
\* thread is inside tables.insert on the same map.
C4_NoLookupDuringInsert ==
    \A t \in Threads, u \in Threads : ~(pc[t] \in Lookups /\ pc[u] = "i_insert")

\* C5: a get_ntt_table call for a size that was already in the cache when it began
\* never reaches NTT_MUTEX.lock() (and so never waits for a writer).
C5_CachedLookupTakesNoLock ==
    \A t \in Threads :
        (call[t].op = "get" /\ call[t].seen # NoTable) =>
            pc[t] \in {"idle", "g_cell", "g_lookup"}

\* 2^(log_n+1) does not divide P-1, computed on exact integers (2^31 > P-1)
NoRootExists(log_n) == log_n + 1 > 30 \/ (P - 1) % Pow2Int(log_n + 1) # 0

\* C6: for every log_n for which no primitive 2^(log_n+1)-th root of unity exists modulo
\* P, get_ntt_table(log_n) ends by returning an error to its caller; it neither panics
\* nor returns a table.
C6_NoRootIsAnError ==
    \A t \in Threads :
        (call[t].op = "get" /\ Ended(t) /\ NoRootExists(ArgLogN(t))) =>
            call[t].result.kind = "err"

\* C7: after a call has failed, NTT_MUTEX is free of the failed call and usable (not
\* poisoned), so that a later call can lock it.
C7_MutexUsableAfterFailure ==
    \A t \in Threads :
        (Ended(t) /\ call[t].result.kind \in {"err", "panic"}) =>
            (~mutex_poisoned /\ mutex_holder # t)

----------------------------------------------------------------------------
\* x is a canonical representative: 0 <= x < P
Canonical(x) == BigLt(x, BigP)

AssignOps == {"add_assign", "sub_assign", "mul_assign", "div_assign"}

\* the value an operation produced: what it returned, or self after an assigning form
FpResult == IF f_op \in AssignOps THEN f_self ELSE f_out.val

\* C8: every Fp32 value a public operation hands out (the value returned, the value left
\* in self, each digit of decompose) holds a representative in [0, P); none has
\* inner() >= P.
C8_AlwaysCanonical ==
    (f_out.done /\ ~f_out.panic) =>
        /\ Canonical(f_out.val)
        /\ Canonical(f_self)
        /\ \A i \in 1..Len(f_out.digits) : Canonical(f_out.digits[i])

\* a^e mod P on exact naturals, by halving the exponent
RECURSIVE RefPow(_, _)
RefPow(a, e) ==
    IF e = 0 THEN <<1>>
    ELSE CHOOSE r \in
             {IF e % 2 = 1 THEN BigMod(BigMul(h2, a), BigP) ELSE h2 :
                  h2 \in {CHOOSE sq \in {BigMod(BigMul(h, h), BigP) :
                                            h \in {RefPow(a, e \div 2)}} : TRUE}} : TRUE

\* C9: for canonical a, b: a+b, a-b, a*b and their assigning forms equal (a+b) mod P,
\* (a-b) mod P, (a*b) mod P on unbounded integers; -a + a = 0; for b # 0, inv(b) is
\* b^(P-2) mod P with b*inv(b) = 1, and a/b (and /=) is a*b^(P-2) mod P; every result is
\* in [0, P).  (P is prime and b # 0: the only q in [0, P) with q*b = a mod P is
\* a*b^(P-2) mod P, which is how the quotient is compared.)
C9_FieldOpsExact ==
    (f_out.done /\ f_op \in Binary \cup Division \cup {"neg", "inv"}) =>
        /\ ~f_out.panic
        /\ Canonical(FpResult)
        /\ f_op \in {"add", "add_assign"} =>
               ToInt(FpResult) = (ToInt(f_a) + ToInt(f_b)) % P
        /\ f_op \in {"sub", "sub_assign"} =>
               ToInt(FpResult) = (ToInt(f_a) + P - ToInt(f_b)) % P
        /\ f_op \in {"mul", "mul_assign"} =>
               FpResult = BigMod(BigMul(f_a, f_b), BigP)
        /\ f_op = "neg" => (ToInt(FpResult) + ToInt(f_a)) % P = 0
        /\ f_op = "inv" =>
               /\ FpResult = RefPow(f_a, P - 2)
               /\ BigMod(BigMul(f_a, FpResult), BigP) = <<1>>
        /\ f_op \in Division =>
               BigMod(BigMul(FpResult, f_b), BigP) = f_a

\* C9 witness: a quotient of two elements other than 0 and 1 has been computed, and a
\* product that needs both words
C9_Witness ==
    /\ f_out.done
    /\ \/ f_op = "div" /\ f_a \notin {<<>>, <<1>>} /\ f_b \notin {<<>>, <<1>>}
                       /\ f_out.val \notin {<<>>, <<1>>, f_a}
       \/ f_op = "mul_assign" /\ BitLen(BigMul(f_a, f_b)) > U32_BITS /\ f_self # <<>>

\* log2 of a power-of-two basis, and ceil(n / k)
Log2(basis) == CHOOSE k \in 0..(U32_BITS - 1) : BigPow2(k) = basis
CeilDiv(n, k) == (n + k - 1) \div k

\* sum over j > i of digits[j] * basis^(j - i - 1) is acc; the whole sum at i = 0
RECURSIVE Recompose(_, _, _, _)
Recompose(digits, basis, i, acc) ==
    IF i = 0 THEN acc
    ELSE CHOOSE r \in {Recompose(digits, basis, i - 1, next) :
                          next \in {BigAdd(digits[i], BigMul(basis, acc))}} : TRUE

\* decompose returned ceil(bit_count(P) / log2(basis)) digits, each below basis, that
\* recompose to a
DecomposeExact ==
    /\ ~f_out.panic
    /\ Len(f_out.digits) = CeilDiv(BitLen(BigP), Log2(f_b))
    /\ \A i \in 1..Len(f_out.digits) : BigLt(f_out.digits[i], f_b)
    /\ Recompose(f_out.digits, f_b, Len(f_out.digits), <<>>) = f_a

\* C10 as stated: for every element a and every power-of-two basis 2^k, k >= 0,
\* a.decompose(basis) returns decompose_len(basis) digits below basis that recompose to a.
C10_DecomposeEveryBasis ==
    (f_op = "decompose" /\ f_out.done) => DecomposeExact

\* C10: for every element a and every power-of-two basis 2^k with 1 <= k <= 31,
\* a.decompose(basis) returns ceil(bit_count(P) / k) little-endian digits, each below
\* basis, and the sum of digit_i * basis^i is a.
C10_DecomposeBasisTwoUp ==
    (f_op = "decompose" /\ f_out.done /\ f_b # <<1>>) => DecomposeExact

\* C10 witness: a decomposition with at least two non-zero digits and zero padding, in a
\* basis whose log2 does not divide bit_count(P)
C10_Witness ==
    /\ f_op = "decompose" /\ f_out.done /\ ~f_out.panic
    /\ BitLen(BigP) % Log2(f_b) # 0
    /\ Len(f_out.digits) >= 3
    /\ f_out.digits[1] # <<>> /\ f_out.digits[2] # <<>>
    /\ f_out.digits[Len(f_out.digits)] = <<>>

C15_RatioIsFloorQuotient ==
    (m_out.done /\ ~m_out.modulus.panic) =>
        LET ratio == BigAdd(BigShl(m_out.modulus.ratio[2], m_bits), m_out.modulus.ratio[1])
        IN  /\ BitLen(m_out.modulus.ratio[1]) <= m_bits
            /\ BitLen(m_out.modulus.ratio[2]) <= m_bits
            /\ BigGe(BigPow2(2 * m_bits), BigMul(ratio, m_value))
            /\ BigLt(BigPow2(2 * m_bits), BigMul(BigAdd(ratio, <<1>>), m_value))
            /\ div_inplace(m_value, m_bits)[1][3] = <<>>

\* a value on the div_half path whose quotient needs both halves of a limb
C15_Witness ==
    /\ m_out.done /\ ~m_out.modulus.panic
    /\ m_bits = U32_BITS
    /\ ~BigLt(HALF(m_bits), m_value)
    /\ BitLen(m_out.modulus.ratio[1]) > HALF_BITS(m_bits)
    /\ m_out.modulus.ratio[2] # <<>>

\* C20: Modulus::new(value) accepts every value >= 2 whose bit_count is at most BITS-1
\* and panics for the others.
C20_AcceptsUpToBitsMinusOne ==
    m_out.done =>
        (~m_out.modulus.panic <=>
             (BigGe(m_value, <<2>>) /\ BitLen(m_value) <= m_bits - 1))

\* the number a slice stands for: the sum over i of self[i] * 2^(BITS*i), first word lowest
RECURSIVE SliceValue(_, _)
SliceValue(self, BITS) ==
    IF self = <<>> THEN <<>>
    ELSE BigAdd(self[1], BigShl(SliceValue(Tail(self), BITS), BITS))

\* C16: for every valid Modulus and every non-empty slice of arbitrary words, the last one
\* unreduced included, the slice reduce returns the slice's number mod value, below value,
\* and every accumulator of the right-to-left fold is a single word.
C16_SliceReduceExact ==
    (b_form = "slice" /\ b_result.done /\ b_self # <<>>) =>
        /\ ~b_result.panic
        /\ b_result.out = BigMod(SliceValue(b_self, U8_BITS), b_modulus.value)
        /\ BigLt(b_result.out, b_modulus.value)
        /\ Len(b_result.accs) = Len(b_self) - 1
        /\ \A i \in 1..Len(b_result.accs) : BitLen(b_result.accs[i]) <= U8_BITS

\* a slice of three words whose last word is not below the modulus
C16_Witness ==
    /\ b_form = "slice" /\ b_result.done /\ ~b_result.panic
    /\ Len(b_self) = 3
    /\ BigGe(b_self[3], b_modulus.value)
    /\ b_self[1] # b_self[2]
    /\ b_result.out # <<>>

\* r is below 2 * modulus and congruent to rhs * value modulo modulus
LazyProductExact ==
    /\ BitLen(q_out.val) <= q_bits
    /\ BigLt(q_out.val, BigMul(<<2>>, q_modulus))
    /\ BigMod(q_out.val, q_modulus) = BigMod(BigMul(q_rhs, q_value), q_modulus)

\* C17 as stated: for every modulus >= 2, every value < modulus and every word rhs,
\* MulModuloFactor::new(value, modulus).mul_modulo_lazy(rhs, modulus) returns a word r
\* with 0 <= r < 2*modulus and r congruent to rhs*value modulo modulus.
C17_LazyProductEveryModulus ==
    (q_out.done /\ BigGe(q_modulus, <<2>>) /\ BigLt(q_value, q_modulus)) => LazyProductExact

\* C17 amended: the same for every modulus with 2 <= modulus <= 2^(BITS-1), so that
\* 2*modulus fits the word.
C17_LazyProductHalfWordModulus ==
    (/\ q_out.done
     /\ BigGe(q_modulus, <<2>>)
     /\ BigGe(BigPow2(q_bits - 1), q_modulus)
     /\ BigLt(q_value, q_modulus)) => LazyProductExact

\* a product whose lazy result is not yet below the modulus
C17_Witness ==
    /\ q_out.done
    /\ BigGe(q_modulus, <<2>>) /\ BigGe(BigPow2(q_bits - 1), q_modulus)
    /\ BigLt(q_value, q_modulus)
    /\ BigGe(q_out.val, q_modulus)
    /\ BigGe(q_rhs, q_modulus)

\* the sum over i of a[i] * b[i], as an unbounded integer
RECURSIVE DotSum(_, _, _)
DotSum(a, b, i) ==
    IF i > Len(a) THEN 0 ELSE ToInt(a[i]) * ToInt(b[i]) + DotSum(a, b, i + 1)

Pow2Range == Pow2Int(U8_BITS)

\* C18: PowOf2Modulus::new panics for every value that is not a power of two greater
\* than 1; for value = 2^k > 1 and arbitrary words x, y, reduce, add_reduce, sub_reduce,
\* neg_reduce and mul_reduce return x mod value, (x+y) mod value, (x-y) mod value,
\* (-x) mod value and (x*y) mod value of the unbounded integers, and dot_product_reduce
\* of two sequences of equal length returns (sum of a_i*b_i) mod value.
C18_Pow2OpsExact ==
    /\ p_modulus.built =>
           /\ p_modulus.panic <=> p_value \notin {BigPow2(k) : k \in 1..(U8_BITS - 1)}
           /\ ~p_modulus.panic => ToInt(p_modulus.mask) = ToInt(p_value) - 1
    /\ (p_out.done /\ p_op \in {"reduce", "add_reduce", "sub_reduce", "neg_reduce",
                                   "mul_reduce"}) =>
           LET value == ToInt(p_value)
               x == ToInt(p_x)
               y == ToInt(p_y)
               r == ToInt(p_out.val)
           IN  /\ ~p_out.panic
               /\ p_op = "reduce" => r = x % value
               /\ p_op = "add_reduce" => r = (x + y) % value
               /\ p_op = "sub_reduce" => r = (x + Pow2Range - y) % value
               /\ p_op = "neg_reduce" => r = (Pow2Range - x) % value
               /\ p_op = "mul_reduce" => r = (x * y) % value
    /\ (p_out.done /\ p_op = "dot_product_reduce" /\ Len(p_x) = Len(p_y)) =>
           /\ ~p_out.panic
           /\ ToInt(p_out.val) = DotSum(p_x, p_y, 1) % ToInt(p_value)

\* a dot product whose accumulator wrapped and whose result is not zero
C18_Witness ==
    /\ p_out.done /\ p_op = "dot_product_reduce"
    /\ Len(p_x) = MaxDotLen /\ Len(p_y) = MaxDotLen
    /\ DotSum(p_x, p_y, 1) >= Pow2Range
    /\ ~p_out.panic /\ p_out.val # <<>>

\* x^e mod n by squaring the power of the upper bits of e
RECURSIVE RefExp(_, _, _)
RefExp(x, e, n) ==
    IF e = 0 THEN 1 % n
    ELSE CHOOSE r \in {(((h * h) % n) * (IF e % 2 = 1 THEN x % n ELSE 1)) % n :
                           h \in {RefExp(x, e \div 2, n)}} : TRUE

\* C19: for every PowOf2Modulus, every base x <= mask and every exponent e >= 0,
\* exp_reduce(x, e) equals x^e mod value (1 for e = 0), and for every exp_log
\* exp_power_of_2_reduce(x, exp_log) equals x^(2^exp_log) mod value, which is
\* exp_reduce(x, 2^exp_log) wherever the exponent's type holds 2^exp_log.
C19_ExpReduceExact ==
    (/\ p_out.done
     /\ p_op \in {"exp_reduce", "exp_power_of_2_reduce"}
     /\ ~BigLt(p_modulus.mask, p_x)) =>
        /\ p_op = "exp_reduce" =>
               /\ ~p_out.panic
               /\ ToInt(p_out.val) = RefExp(ToInt(p_x), ToInt(p_y), ToInt(p_value))
        /\ p_op = "exp_power_of_2_reduce" =>
               /\ ~p_out.panic
               /\ ToInt(p_out.val) = RefExp(ToInt(p_x), Pow2Int(ToInt(p_y)), ToInt(p_value))
               /\ ToInt(p_y) < U8_BITS =>
                      p_out.val = exp_reduce(p_x, BigPow2(ToInt(p_y)), p_modulus,
                                             U8_BITS, U8_BITS)

\* an exponent with trailing zeros and further bits above its lowest set bit
C19_Witness ==
    /\ p_out.done /\ p_op = "exp_reduce" /\ ~p_out.panic
    /\ ~BigLt(p_modulus.mask, p_x)
    /\ BitOf(p_y, 0) = 0 /\ ~is_power_of_two(p_y, U8_BITS) /\ p_y # <<>>
    /\ ToInt(p_out.val) > 1


----------------------------------------------------------------------------
\* degree divides P - 1 (no number is a multiple of 0 but 0)
Divides(degree) == degree # <<>> /\ BigMod(BigSub(BigP, <<1>>), degree) = <<>>

\* C11: for every u32 degree that does not divide P - 1, try_primitive_root(degree)
\* returns the NoPrimitiveRoot error, on every call and before any sample is drawn.
C11_NonDivisorIsAnError ==
    (r_op = "try_primitive_root" /\ ~Divides(r_degree)) =>
        /\ r_tries = 0
        /\ r_out.done => r_out.kind = "err"

\* the (degree, w) of the search rounds in which w has multiplicative order exactly
\* degree, on exact naturals: w^(degree/2) = P - 1 and w^degree = 1 (mod P)
ExactOrder ==
    {pair \in {<<entry.degree, entry.round.w>> : entry \in SearchRounds} :
        /\ RefPow(pair[2], ToInt(pair[1]) \div 2) = BigSub(BigP, <<1>>)
        /\ RefPow(pair[2], ToInt(pair[1])) = <<1>>}

\* C12: for every power-of-two degree > 1 dividing P - 1 and every outcome of the
\* sampling, a value returned as Ok by try_primitive_root(degree) satisfies
\* root^(degree/2) = P - 1 and root^degree = 1 (mod P): its order is exactly degree.
C12_RootHasExactOrder ==
    (/\ r_op = "try_primitive_root" /\ r_out.done /\ r_out.kind = "ok"
     /\ BigLt(<<1>>, r_degree) /\ is_power_of_two(r_degree, U32_BITS)
     /\ Divides(r_degree)) =>
        /\ Canonical(r_out.val)
        /\ <<r_degree, r_out.val>> \in ExactOrder

\* C12 witness: a root of order above 2 was returned after some samples had been
\* turned down
C12_Witness ==
    /\ r_op = "try_primitive_root" /\ r_out.done /\ r_out.kind = "ok"
    /\ BigLt(<<2>>, r_degree)
    /\ r_tries > 1

\* the least of a non-empty set of naturals
BigMin(S) == CHOOSE x \in S : \A y \in S : ~BigLt(y, x)

\* the primitive degree-th roots of unity are the odd powers of any one of them; 5 is
\* not a square modulo P, so 5^((P-1)/degree) is one
PrimitiveRoots(degree) ==
    LET g == RefPow(<<5>>, (P - 1) \div degree)
    IN  {RefPow(g, j) : j \in {i \in 1..(degree - 1) : i % 2 = 1}}

\* per log2 of the degree, the smallest canonical primitive root
MinimalRoots == [k \in 1..MaxLogDegree |-> BigMin(PrimitiveRoots(Pow2Int(k)))]

\* C13: for every power-of-two degree > 1 dividing P - 1, try_minimal_primitive_root
\* returns the same value whichever primitive root the search found: the smallest
\* canonical representative among all primitive degree-th roots of unity modulo P.
C13_MinimalRootIsCanonical ==
    (/\ r_op = "try_minimal_primitive_root" /\ r_out.done /\ r_out.kind = "ok"
     /\ BigLt(<<1>>, r_degree) /\ is_power_of_two(r_degree, U32_BITS)
     /\ Divides(r_degree)) =>
        /\ RefPow(r_w, ToInt(r_degree) \div 2) = BigSub(BigP, <<1>>)
        /\ r_out.val = MinimalRoots[trailing_zeros(r_degree, U32_BITS)]

\* C13 witness: the walk over the odd powers has replaced the root the search found
C13_Witness ==
    /\ r_op = "try_minimal_primitive_root" /\ r_out.done /\ r_out.kind = "ok"
    /\ BigLt(<<2>>, r_degree)
    /\ r_i = ToInt(r_degree)
    /\ r_out.val # r_w


----------------------------------------------------------------------------
\* C21: in every interleaving of threads that request the same uncached log_n, a table
\* for that log_n is inserted at most once: under the lock the sizes left to generate
\* never include a cached size, the None branch runs only on an unset cell, and an
\* entry that is in the cache is never written again.
C21_InsertedAtMostOnce ==
    /\ [](\A t \in Threads :
            /\ pc[t] \in {"i_some", "i_insert"} => call[t].todo \cap DOMAIN tables = {}
            /\ pc[t] = "i_none" => ~cell_set)
    /\ [][\A k \in LogSizes : Visible(k) # NoTable => Visible(k)' = Visible(k)]_vars

\* C21 witness: a get_ntt_table call that began with its size uncached holds the lock
\* and finds that size, inserted by another thread, outside the difference
C21_Witness ==
    \E t \in Threads :
        /\ pc[t] = "i_some" /\ call[t].op = "get" /\ call[t].seen = NoTable
        /\ call[t].todo = {}
        /\ Visible(ArgLogN(t)) # NoTable
        /\ Visible(ArgLogN(t)).by # t


\* C22: on the first initialization the tables of all requested sizes become visible in
\* one step: while the None branch fills its local map nothing is visible, and the step
\* that sets the cell installs exactly the sizes of that call, each a table the call
\* had finished building.
C22_FirstInitAtOnce ==
    /\ [](\A t \in Threads :
            pc[t] = "i_none" => \A k \in LogSizes : Visible(k) = NoTable)
    /\ [][(~cell_set /\ cell_set') =>
            \E t \in Threads :
                /\ pc[t] = "i_none"
                /\ DOMAIN tables' = call[t].log_ns
                /\ tables' = call[t].local
                /\ \A k \in call[t].log_ns :
                       tables'[k] = [log_n |-> k, by |-> t, call |-> calls[t]]]_vars

\* C22 witness: the first call was an init_ntt_table of two sizes; it has returned, and
\* another thread in its own first call is looking the cache up
C22_Witness ==
    \E t \in Threads, u \in Threads :
        /\ t # u /\ calls[t] = 1 /\ calls[u] = 1
        /\ Ended(t) /\ call[t].op = "init" /\ call[t].result.kind = "ok"
        /\ pc[u] = "g_lookup"
        /\ cell_set /\ Cardinality(DOMAIN tables) = 2
        /\ \A k \in DOMAIN tables : tables[k].by = t


----------------------------------------------------------------------------
\* C23: try_primitive_root draws at most 100 candidates: every candidate before the
\* last one failed the primitivity test, Ok carries the first candidate that passes, the
\* error after sampling comes with the 100th failure, and the call always ends.
C23_SearchIsBounded ==
    /\ [](r_op = "try_primitive_root" =>
            /\ r_tries <= SearchAttempts
            /\ (r_pc = "search" /\ r_tries > 0) => <<r_degree, r_w>> \notin ExactOrder
            /\ (r_out.done /\ r_out.kind = "ok") =>
                   /\ r_tries >= 1
                   /\ r_out.val = r_w
                   /\ <<r_degree, r_w>> \in ExactOrder
            /\ (r_out.done /\ r_out.kind = "err" /\ Divides(r_degree)) =>
                   r_tries = SearchAttempts)
    /\ (r_op = "try_primitive_root" ~> r_out.done)

\* C23 witness: all 100 candidates failed and the call returned the error
C23_Witness ==
    /\ r_op = "try_primitive_root" /\ r_out.done /\ r_out.kind = "err"
    /\ Divides(r_degree)
    /\ r_tries = SearchAttempts
    /\ <<r_degree, r_w>> \notin ExactOrder


\* the twiddle form of a field element r: r with floor(r * 2^32 / P)
Twiddle(r) == [value |-> r, quotient |-> BigDiv(BigMul(r, BigPow2(U32_BITS)), BigP)]

\* the number below 2^bits whose bit k is bit (bits - 1 - k) of j
BitReverse(j, bits) ==
    CHOOSE m \in 0..(Pow2Int(bits) - 1) :
        \A k \in 0..(bits - 1) :
            (m \div Pow2Int(k)) % 2 = (j \div Pow2Int(bits - 1 - k)) % 2

\* C24: a table generate_ntt_table(log_n) returned has a root of order exactly 2n,
\* n = 2^log_n root_powers, the twiddle form of 1 in slot 0 and the twiddle form of
\* root^(bitreverse(j, log_n)) in every slot j; while the table is built no slot of
\* root_powers is assigned twice, and in the end every slot was assigned once.
C24_RootPowersBitReversed ==
    /\ \A j \in DOMAIN n_writes.root_powers : n_writes.root_powers[j] <= 1
    /\ (n_out.done /\ n_out.kind = "ok") =>
           LET table == n_out.table
               n == Pow2Int(n_log_n)
           IN  /\ RefPow(table.root, n) = BigSub(BigP, <<1>>)
               /\ Len(table.root_powers) = n
               /\ table.root_powers[1] = Twiddle(<<1>>)
               /\ \A j \in 0..(n - 1) :
                      /\ table.root_powers[j + 1]
                             = Twiddle(RefPow(table.root, BitReverse(j, n_log_n)))
                      /\ n_writes.root_powers[j + 1] = 1

\* C24 witness: a table of eight or more root powers was returned; its slot 1 holds
\* the power n / 2 of the root and not the root
C24_Witness ==
    /\ n_out.done /\ n_out.kind = "ok" /\ n_log_n >= 3
    /\ n_out.table.root_powers[2].value = RefPow(n_out.table.root, Pow2Int(n_log_n - 1))
    /\ n_out.table.root_powers[2].value # n_out.table.root

\* C25: in a table generate_ntt_table(log_n) returned inv_root * root = 1, slot 0 of
\* inv_root_powers holds the twiddle form of 1 and, for every i in [1, n), slot
\* bitreverse(i - 1, log_n) + 1 lies in [1, n - 1] and holds the twiddle form of
\* inv_root^i; no slot of inv_root_powers is assigned twice while the table is built
\* and every slot was assigned once in the end; inv_degree is the twiddle form of the
\* inverse of n modulo P.
C25_InvRootPowersShifted ==
    /\ \A j \in DOMAIN n_writes.inv_root_powers : n_writes.inv_root_powers[j] <= 1
    /\ (n_out.done /\ n_out.kind = "ok") =>
           LET table == n_out.table
               n == Pow2Int(n_log_n)
           IN  /\ BigMod(BigMul(table.inv_root, table.root), BigP) = <<1>>
               /\ Len(table.inv_root_powers) = n
               /\ table.inv_root_powers[1] = Twiddle(<<1>>)
               /\ n_writes.inv_root_powers[1] = 1
               /\ \A i \in 1..(n - 1) :
                      LET slot == BitReverse(i - 1, n_log_n) + 1
                      IN  /\ slot \in 1..(n - 1)
                          /\ table.inv_root_powers[slot + 1]
                                 = Twiddle(RefPow(table.inv_root, i))
                          /\ n_writes.inv_root_powers[slot + 1] = 1
               /\ BigLt(table.inv_degree.value, BigP)
               /\ BigMod(BigMul(ToBig(n), table.inv_degree.value), BigP) = <<1>>
               /\ table.inv_degree = Twiddle(table.inv_degree.value)

\* C25 witness: a table of eight or more inverse powers was returned; the slot
\* n / 2 + 1 holds the square of inv_root, which is not what slot 2 holds
C25_Witness ==
    /\ n_out.done /\ n_out.kind = "ok" /\ n_log_n >= 3
    /\ LET table == n_out.table
           half == Pow2Int(n_log_n - 1)
       IN  /\ table.inv_root_powers[half + 2].value = RefPow(table.inv_root, 2)
           /\ table.inv_root_powers[3].value # RefPow(table.inv_root, 2)
           /\ table.inv_degree.value # <<1>>

\* what mul_root returned, what mul_root_assign left in self
TwiddleProduct == IF tw_op = "mul_root_assign" THEN tw_self ELSE tw_out.val

\* C26: for canonical x and r, r.to_root() has value r and quotient
\* floor(r * 2^32 / P), from_root(r.to_root()) = r, and x.mul_root(r.to_root()) and
\* x.mul_root_assign(r.to_root()) give x * r mod P, a value in [0, P), which is what
\* the operator * gives.
C26_TwiddleProductIsProduct ==
    tw_out.done =>
        /\ tw_out.root.value = tw_r
        /\ tw_out.root.quotient = BigDiv(BigMul(tw_r, BigPow2(U32_BITS)), BigP)
        /\ tw_op = "from_root" => tw_out.val = tw_r
        /\ tw_op \in {"mul_root", "mul_root_assign"} =>
               /\ TwiddleProduct = BigMod(BigMul(tw_x, tw_r), BigP)
               /\ BigLt(TwiddleProduct, BigP)
               /\ TwiddleProduct = mul_reduce(tw_x, tw_r, BARRETT_MODULUS)

\* C26 witness: a product by a root where the difference of the two wrapped products
\* was P or more, so that the subtraction of P was needed
C26_Witness ==
    /\ tw_out.done /\ tw_op = "mul_root_assign"
    /\ BigGe(factor_mul_reduce_lazy(tw_x, tw_out.root, BigP, U32_BITS), BigP)
    /\ tw_self \notin {<<>>, tw_x, tw_r}

\* the entries of the cache that the running or last call of thread t put there
AddedBy(t) == {k \in DOMAIN tables : tables[k].by = t /\ tables[k].call = calls[t]}

\* C27: when init_ntt_table returns an error, the cache holds exactly the entries it
\* held before the call: the call that failed has added no table.
C27_ErrorLeavesCacheAsItWas ==
    \A t \in Threads :
        (Ended(t) /\ call[t].result.kind = "err") => AddedBy(t) = {}

\* C27 as the code has it: the step in which init_ntt_table returns an error changes
\* no entry; on the first initialization (None branch) the cell is still unset and
\* nothing was installed; on an initialized cache (Some branch) the entries the call
\* added are the requested sizes it generated and inserted before the size that failed.
C27_ErrorKeepsEarlierEntries ==
    [][\A t \in Threads :
           (pc[t] \in {"i_some", "i_none"} /\ pc'[t] = "idle"
                /\ call'[t].result.kind = "err") =>
               /\ cell_set' = cell_set
               /\ tables' = tables
               /\ pc[t] = "i_none" => (~cell_set /\ tables = <<>>)
               /\ pc[t] = "i_some" =>
                      (cell_set /\ AddedBy(t) \subseteq (call[t].log_ns \ call[t].todo))]_vars

\* C27 witness: one thread's init_ntt_table has returned an error and left a table of
\* that call in the cache; another thread's has returned an error and left none
C27_Witness ==
    \E t, u \in Threads :
        /\ t # u
        /\ Ended(t) /\ call[t].op = "init" /\ call[t].result.kind = "err"
        /\ AddedBy(t) # {}
        /\ Ended(u) /\ call[u].op = "init" /\ call[u].result.kind = "err"
        /\ AddedBy(u) = {}

\* where a thread holds NTT_MUTEX: from the lock to the return of init_ntt_table
HoldsLock == {"i_match", "i_some", "i_insert", "i_none"}

\* C28: under fair scheduling every call of get_ntt_table or init_ntt_table ends, and
\* it ends by returning a table or an error; a call takes NTT_MUTEX only in its one
\* NTT_MUTEX.lock(), which it never reaches again or while holding the mutex, and
\* holds it exactly until init_ntt_table returns.
C28_EveryCallReturns ==
    /\ [](\A t \in Threads :
            /\ (mutex_holder = t) <=> (pc[t] \in HoldsLock)
            /\ Ended(t) => call[t].result.kind \in {"ok", "err"})
    /\ [][\A t \in Threads :
            /\ (mutex_holder' = t /\ mutex_holder # t) => (pc[t] = "i_lock" /\ mutex_holder = "none")
            /\ (pc'[t] = "i_lock" /\ pc[t] # "i_lock") => pc[t] \in {"idle", "g_cell", "g_lookup"}
            /\ (pc'[t] \in {"g_cell", "g_lookup"} /\ pc[t] # pc'[t]) => pc[t] \in {"idle", "g_cell"}]_vars
    /\ \A t \in Threads : (pc[t] # "idle") ~> (pc[t] = "idle")
====
